---- MODULE Spec2Model ----
(***************************************************************************)
(* yajuarya/speakchat-ai: the rate limiter (RateLimiter, server side) and  *)
(* the resilient request client (ApiService, browser side).                *)
(*                                                                         *)
(* The state machines share the clock `now` (Date.now(), in ms):           *)
(*   SpecRL         - RateLimiter: checkRateLimit, cleanup (the sweep),    *)
(*                    destroy                                              *)
(*   Spec           - ApiService, one pipeline at a time: sendChatMessage  *)
(*                    / makeRequest, the transport's completions, the      *)
(*                    online/offline signals, clearRequestQueue,           *)
(*                    getMetrics, checkHealth                              *)
(*   SpecConcurrent - ApiService, pipelines of different calls overlapping *)
(*   SpecStreak     - ApiService, calls one after another, with the count  *)
(*                    of the calls that failed in a row                    *)
(*   SpecSimple     - the simple client of src/utils/apiService.ts: a      *)
(*                    bounded loop of fetches with exponential backoff     *)
(* The other specifications (SpecRLFair, SpecKeys, SpecPost, SpecHour,     *)
(* SpecSignals, SpecPassengers, SpecTimers, SpecBackoff, SpecPure) are     *)
(* the same machines with the operations and bounds one property needs.    *)
(***************************************************************************)
EXTENDS Integers, Sequences, FiniteSets, TLC

VARIABLES
  now,        \* Date.now() in ms
  ticks,      \* how many times the clock has advanced (bounds the run)
  \* ---- RateLimiter -------------------------------------------------------
  config,     \* the RateLimitConfig the caller passes (fixed per run)
  store,      \* RateLimiter.store : Map<string, RateLimitEntry>
  sweeping,   \* the setInterval of the constructor is still armed
  rlResult,   \* what the last checkRateLimit returned, and for which key
  admitLog,   \* history: per key, the times of the admitted checks
  shadow,     \* history: the store as it would be had no sweep ever run
  postResponse, \* what the last POST of the chat route answered
  twin,       \* a second limiter, fed the same checks under its own policy
  \* ---- ApiService --------------------------------------------------------
  connectionStatus,           \* [isOnline, lastChecked, responseTime]
  circuitBreakerFailures,
  circuitBreakerLastFailure,  \* a time, or Null
  requestQueue,               \* Map<string, Promise>: key -> pipeline
  pipes,        \* the makeRequest pipelines (one promise each, retries included)
  healthStart,  \* start time of the pending checkHealth fetch, or Null
  lastResult,   \* history: the outcome this step delivered to its callers, if any
  failStreak,   \* history: calls in a row that owned a pipeline and failed
  lastSignal,   \* history: the last window event, "none" before the first
  simple,       \* the call of the simple client (utils/apiService.ts)
  \* ---- the pure functions, applied to one input --------------------------
  call,         \* the function applied and its arguments
  ret           \* what it returned, NoRet before it has run

rlVars ==
  <<config, store, sweeping, rlResult, admitLog, shadow, postResponse, twin>>

breakerVars == <<circuitBreakerFailures, circuitBreakerLastFailure>>

pureVars == <<call, ret>>

clientVars ==
  <<connectionStatus, breakerVars, requestQueue, pipes, healthStart,
    lastResult, failStreak, lastSignal, simple>>

-----------------------------------------------------------------------------
(* Bounds of the model *)

\* clock steps of a run of the limiter
MaxRLTicks == 3

\* the identities of the pipelines that can be in flight at once
Pipes == {1, 2}

\* passengers a pipeline can carry
MaxWaiters == 1

\* clock steps of a run of Spec (30 s each)
MaxTicks == 3

MaxConcurrentTicks == 1

MaxStreakTicks == 3

\* clock steps of a run with the window events and checkHealth
MaxSignalTicks == 2

\* the retry counts calculateRetryDelay is applied to: 0..MaxRetryCount
MaxRetryCount == 6

\* clock steps of a run of the limiter with two routes
MaxKeysTicks == 2

\* passengers of a call, and clock steps, in a run of SpecPassengers
MaxPassengers == 2

MaxPassengerTicks == 3

\* clock steps of a run of SpecTimers
MaxTimerTicks == 2

\* clock steps of a run of SpecBackoff
MaxBackoffTicks == 1

\* clock steps of a run of SpecHour
MaxHourTicks == 3

\* clock steps of a run of SpecSimple
MaxSimpleTicks == 7

\* clock steps of a run of the chat route
MaxPostTicks == 2

RLTickSteps == {5000, 55000}

IPs == {"10.0.0.1", "10.0.0.2"}

Endpoints == {"chat"}

-----------------------------------------------------------------------------
(* RateLimiter (src/src/hooks/useApiCall.ts) *)

MinuteWindow == 60 * 1000

BurstError == "Slow down a bit! Please wait a few seconds before your next message."

MinuteError == "You're chatting quite actively! Please wait a moment before sending another message."

NoError == "undefined"

\* RATE_LIMITS.chat
RATE_LIMITS_chat ==
  [perMinute |-> 30, perHour |-> 100, burstLimit |-> 5, burstWindow |-> 10000]

\* The policies a run can be under: small ones, where both gates close within
\* a few checks.  perHour is a field of the config that no code reads.
Configs ==
  { [perMinute |-> 2, perHour |-> 100, burstLimit |-> 2, burstWindow |-> 5000],
    [perMinute |-> 4, perHour |-> 100, burstLimit |-> 2, burstWindow |-> 10000],
    [perMinute |-> 3, perHour |-> 100, burstLimit |-> 1, burstWindow |-> 10000] }

\* (mutant) a key that leaves the route out
getKeyIpOnly(ip, endpoint) == ip

getKey(ip, endpoint) == ip \o ":" \o endpoint

NewEntry(t, cfg) ==
  [count |-> 0, resetTime |-> t + MinuteWindow,
   burstCount |-> 0, burstResetTime |-> t + cfg.burstWindow]

\* (mutant) off by one: the minute window is reset only after its reset time
ResetMinuteLate(e, t) ==
  IF t > e.resetTime THEN [e EXCEPT !.count = 0, !.resetTime = t + MinuteWindow]
                     ELSE e

\* lines 232-241: both windows are reset before the gates are looked at
ResetMinute(e, t) ==
  IF t >= e.resetTime THEN [e EXCEPT !.count = 0, !.resetTime = t + MinuteWindow]
                      ELSE e

\* (mutant) the burst counter is zeroed on every check
ResetBurstAlways(e, t, cfg) ==
  [e EXCEPT !.burstCount = 0, !.burstResetTime = t + cfg.burstWindow]

ResetBurst(e, t, cfg) ==
  IF t >= e.burstResetTime
    THEN [e EXCEPT !.burstCount = 0, !.burstResetTime = t + cfg.burstWindow]
    ELSE e

ResetWindows(e, t, cfg) == ResetBurst(ResetMinute(e, t), t, cfg)

\* (mutant) off by one: > for >=
BurstGateClosedLate(e, cfg) == e.burstCount > cfg.burstLimit

BurstGateClosed(e, cfg) == e.burstCount >= cfg.burstLimit

\* (mutant) a sustained gate that also closes at perHour
MinuteGateClosedHourly(e, cfg) ==
  e.count >= cfg.perMinute \/ e.count >= cfg.perHour

MinuteGateClosed(e, cfg) == e.count >= cfg.perMinute

\* (mutant) only the minute counter is incremented
IncrementMinuteOnly(e) == [e EXCEPT !.count = e.count + 1]

Increment(e) == [e EXCEPT !.count = e.count + 1, !.burstCount = e.burstCount + 1]

\* (mutant) a rejected check is counted as well
DecideCountRejected(e, cfg) ==
  IF BurstGateClosed(e, cfg)
    THEN [entry |-> Increment(e),
          ret |-> [allowed |-> FALSE, error |-> BurstError,
                   resetTime |-> e.burstResetTime, remaining |-> 0]]
  ELSE IF MinuteGateClosed(e, cfg)
    THEN [entry |-> Increment(e),
          ret |-> [allowed |-> FALSE, error |-> MinuteError,
                   resetTime |-> e.resetTime, remaining |-> 0]]
  ELSE LET e2 == Increment(e) IN
         [entry |-> e2,
          ret |-> [allowed |-> TRUE, error |-> NoError,
                   resetTime |-> e2.resetTime,
                   remaining |-> cfg.perMinute - e2.count]]

\* (mutant) the sustained gate is looked at before the burst gate
DecideMinuteFirst(e, cfg) ==
  IF MinuteGateClosed(e, cfg)
    THEN [entry |-> e,
          ret |-> [allowed |-> FALSE, error |-> MinuteError,
                   resetTime |-> e.resetTime, remaining |-> 0]]
  ELSE IF BurstGateClosed(e, cfg)
    THEN [entry |-> e,
          ret |-> [allowed |-> FALSE, error |-> BurstError,
                   resetTime |-> e.burstResetTime, remaining |-> 0]]
  ELSE LET e2 == Increment(e) IN
         [entry |-> e2,
          ret |-> [allowed |-> TRUE, error |-> NoError,
                   resetTime |-> e2.resetTime,
                   remaining |-> cfg.perMinute - e2.count]]

\* lines 243-272: the entry after the gates, and the value returned
Decide(e, cfg) ==
  IF BurstGateClosed(e, cfg)
    THEN [entry |-> e,
          ret |-> [allowed |-> FALSE, error |-> BurstError,
                   resetTime |-> e.burstResetTime, remaining |-> 0]]
  ELSE IF MinuteGateClosed(e, cfg)
    THEN [entry |-> e,
          ret |-> [allowed |-> FALSE, error |-> MinuteError,
                   resetTime |-> e.resetTime, remaining |-> 0]]
  ELSE LET e2 == Increment(e) IN
         [entry |-> e2,
          ret |-> [allowed |-> TRUE, error |-> NoError,
                   resetTime |-> e2.resetTime,
                   remaining |-> cfg.perMinute - e2.count]]

Has(map, key) == key \in DOMAIN map

MapSet(map, key, val) ==
  [k \in DOMAIN map \cup {key} |-> IF k = key THEN val ELSE map[k]]

MapDelete(map, keys) == [k \in DOMAIN map \ keys |-> map[k]]

EmptyMap == [k \in {} |-> 0]

\* lines 220-272 on a store: the entry the check leaves and what it returns
CheckOn(map, key, t, cfg) ==
  Decide(ResetWindows(IF Has(map, key) THEN map[key] ELSE NewEntry(t, cfg), t, cfg),
         cfg)

\* the 30 of getRemainingRequests (lines 279-284)
DefaultLimit == 30

\* RateLimiter.getRemainingRequests(ip, endpoint) at time t, on a store
getRemainingRequests(map, ip, endpoint, t) ==
  LET key == getKey(ip, endpoint)
  IN IF ~Has(map, key) THEN DefaultLimit
     ELSE IF t >= map[key].resetTime THEN DefaultLimit
     ELSE IF DefaultLimit - map[key].count > 0 THEN DefaultLimit - map[key].count
     ELSE 0

\* RateLimiter.checkRateLimit(ip, endpoint, config) at time now
checkRateLimit(ip, endpoint, cfg) ==
  LET key  == getKey(ip, endpoint)
      e0   == IF Has(store, key) THEN store[key] ELSE NewEntry(now, cfg)
      e1   == ResetWindows(e0, now, cfg)
      d    == Decide(e1, cfg)
  IN /\ store' = MapSet(store, key, d.entry)
     /\ rlResult' = [key |-> key, at |-> now, before |-> e1, after |-> d.entry,
                     ret |-> d.ret]
     /\ admitLog' = IF d.ret.allowed
                      THEN MapSet(admitLog, key,
                             (IF Has(admitLog, key) THEN admitLog[key] ELSE <<>>)
                               \o <<now>>)
                      ELSE admitLog
     /\ shadow' = MapSet(shadow, key, CheckOn(shadow, key, now, cfg).entry)
     /\ UNCHANGED <<now, ticks, config, sweeping, clientVars, pureVars>>

CheckRateLimit ==
  /\ \E ip \in IPs, ep \in Endpoints : checkRateLimit(ip, ep, config)
  /\ UNCHANGED <<postResponse, twin>>

\* (mutant) a sweep that removes an entry as soon as one window has expired
ExpiredEither(e, t) == e.resetTime < t \/ e.burstResetTime < t

\* (mutant) a sweep that looks at the minute window only
ExpiredMinuteOnly(e, t) == e.resetTime < t

\* RateLimiter.cleanup(), run by the interval timer of the constructor
Expired(e, t) == e.resetTime < t /\ e.burstResetTime < t

cleanup ==
  /\ sweeping
  /\ store' = MapDelete(store, {k \in DOMAIN store : Expired(store[k], now)})
  /\ twin' = [twin EXCEPT !.store =
                MapDelete(@, {k \in DOMAIN @ : Expired(@[k], now)})]
  /\ UNCHANGED <<now, ticks, config, sweeping, rlResult, admitLog, shadow,
                 postResponse, clientVars, pureVars>>

\* RateLimiter.destroy()
destroy ==
  /\ sweeping
  /\ sweeping' = FALSE
  /\ store' = EmptyMap
  /\ shadow' = EmptyMap
  /\ twin' = [twin EXCEPT !.store = EmptyMap]
  /\ UNCHANGED <<now, ticks, config, rlResult, admitLog, postResponse, clientVars,
                 pureVars>>

\* An admission older than a minute can share no rolling window with a later one.
RECURSIVE Recent(_, _)
Recent(log, t) ==
  IF log = <<>> THEN <<>>
  ELSE IF Head(log) + MinuteWindow <= t THEN Recent(Tail(log), t)
  ELSE log

RLTickBy(max, steps) ==
  /\ ticks < max
  /\ \E d \in steps :
       /\ now' = now + d
       /\ admitLog' = [k \in DOMAIN admitLog |-> Recent(admitLog[k], now + d)]
  /\ ticks' = ticks + 1
  /\ UNCHANGED <<config, store, sweeping, rlResult, shadow, postResponse, twin,
                 clientVars, pureVars>>

RLTick == RLTickBy(MaxRLTicks, RLTickSteps)

-----------------------------------------------------------------------------
(* The chat route (src/src/app/api/health/route.ts, POST) *)

\* (mutant) rounding down
Floor(a, b) == a \div b

\* Math.ceil(a / b) for b > 0
Ceil(a, b) == IF a > 0 THEN (a + b - 1) \div b ELSE 0 - ((0 - a) \div b)

Digit(d) ==
  CASE d = 0 -> "0" [] d = 1 -> "1" [] d = 2 -> "2" [] d = 3 -> "3" [] d = 4 -> "4"
    [] d = 5 -> "5" [] d = 6 -> "6" [] d = 7 -> "7" [] d = 8 -> "8" [] d = 9 -> "9"

\* Number.prototype.toString() of a natural number
RECURSIVE toString(_)
toString(n) == IF n < 10 THEN Digit(n) ELSE toString(n \div 10) \o Digit(n % 10)

\* the response carries no retryAfter
NoRetryAfter == 0 - 1

NoResponse ==
  [ip |-> "", checked |-> FALSE, status |-> 0, retryAfter |-> NoRetryAfter,
   RetryAfter |-> "", upstream |-> 0]

\* what getClientIP makes of the request's headers
PostIPs == {"10.0.0.1"}

\* what the request body turns out to be
Bodies == {"not JSON", "no message", "message"}

\* what the model does with the prompts it is given
Upstream == {"answers", "fails once", "fails twice"}

\* lines 39-193: the response once the limiter has returned r at time t, and
\* the number of generateContent calls made for it
Reply(ip, r, t, body, up) ==
  IF ~r.allowed
    THEN [ip |-> ip, checked |-> TRUE, status |-> 429,
          retryAfter |-> Ceil(r.resetTime - t, 1000),
          RetryAfter |-> toString(Ceil(r.resetTime - t, 1000)), upstream |-> 0]
  ELSE IF body = "no message"
    THEN [ip |-> ip, checked |-> TRUE, status |-> 400, retryAfter |-> NoRetryAfter,
          RetryAfter |-> "", upstream |-> 0]
  ELSE [ip |-> ip, checked |-> TRUE, status |-> 200, retryAfter |-> NoRetryAfter,
        RetryAfter |-> "", upstream |-> IF up = "answers" THEN 1 ELSE 2]

\* (mutant) a handler that validates the message before it asks the limiter
PostValidatesFirst(ip, body, up) ==
  IF body \in {"not JSON", "no message"}
    THEN /\ postResponse' = [NoResponse EXCEPT !.ip = ip, !.status = 400]
         /\ UNCHANGED <<now, ticks, config, store, sweeping, rlResult, admitLog,
                        shadow, twin, clientVars, pureVars>>
    ELSE /\ checkRateLimit(ip, "chat", config)
         /\ postResponse' = Reply(ip, rlResult'.ret, now, body, up)
         /\ UNCHANGED twin

\* POST(request) for one request: request.json() throws on a body that is
\* not JSON and the catch of lines 195-199 answers; otherwise the limiter is
\* asked (lines 36-37) before anything else is looked at
Post(ip, body, up) ==
  IF body = "not JSON"
    THEN /\ postResponse' = [NoResponse EXCEPT !.ip = ip, !.status = 400]
         /\ UNCHANGED <<now, ticks, config, store, sweeping, rlResult, admitLog,
                        shadow, twin, clientVars, pureVars>>
    ELSE /\ checkRateLimit(ip, "chat", config)
         /\ postResponse' = Reply(ip, rlResult'.ret, now, body, up)
         /\ UNCHANGED twin

\* POST(request): the policy is RATE_LIMITS.chat, or its scaled-down stand-in
POST == \E ip \in PostIPs, body \in Bodies, up \in Upstream : Post(ip, body, up)

NoResult ==
  [key |-> "", at |-> 0, before |-> NewEntry(0, RATE_LIMITS_chat),
   after |-> NewEntry(0, RATE_LIMITS_chat),
   ret |-> [allowed |-> FALSE, error |-> NoError, resetTime |-> 0, remaining |-> 0]]

-----------------------------------------------------------------------------
(* ApiService (src/src/services/apiService.ts): constants and pure parts *)

Null == 0 - 1      \* null / undefined, where a time or a number is expected

timeout == 30000

maxRetries == 3

retryDelay == 1000

circuitBreakerThreshold == 5

circuitBreakerResetTime == 60000

MaxDelay == 30000

healthTimeout == 5000

DefaultRetryAfter == 60

\* Strings are sequences of characters, so that JSON.stringify and the template
\* string of getRequestKey are computed, not assumed injective.
baseUrl == <<"/", "a", "p", "i">>

ChatPath == <<"/", "c", "h", "a", "t">>

Quote == "\""

Backslash == "\\"

RECURSIVE Escape(_)
Escape(s) ==
  IF s = <<>> THEN <<>>
  ELSE (IF Head(s) \in {Quote, Backslash} THEN <<Backslash, Head(s)>>
                                          ELSE <<Head(s)>>) \o Escape(Tail(s))

\* JSON.stringify of a string
StringifyString(s) == <<Quote>> \o Escape(s) \o <<Quote>>

\* JSON.stringify of a ChatRequest: its four fields in declaration order
StringifyRequest(r) ==
  <<"{">> \o StringifyString(<<"m", "e", "s", "s", "a", "g", "e">>)
    \o <<":">> \o StringifyString(r.message) \o <<",">>
    \o StringifyString(<<"p", "e", "r", "s", "o", "n", "a", "l", "i", "t", "y">>)
    \o <<":">> \o StringifyString(r.personality) \o <<",">>
    \o StringifyString(<<"g", "e", "n", "d", "e", "r">>)
    \o <<":">> \o StringifyString(r.gender) \o <<",">>
    \o StringifyString(<<"l", "a", "n", "g", "u", "a", "g", "e">>)
    \o <<":">> \o StringifyString(r.language) \o <<"}">>

\* `${url}_${JSON.stringify(options.body || {})}`; an empty body is falsy
getRequestKey(url, body) ==
  url \o <<"_">> \o
    (IF body = <<>> THEN <<"{", "}">> ELSE StringifyString(body))

RequestKey(r) == getRequestKey(baseUrl \o ChatPath, StringifyRequest(r))

createApiError(type, statusCode, retryable, retryAfter) ==
  [type |-> type, statusCode |-> statusCode, retryable |-> retryable,
   retryAfter |-> retryAfter]

NoApiError == createApiError("none", Null, FALSE, Null)

BreakerError == createApiError("server", 503, FALSE, Null)

OfflineError == createApiError("network", Null, TRUE, Null)

TimeoutError == createApiError("timeout", Null, TRUE, Null)

NetworkError == createApiError("network", Null, TRUE, Null)

UnknownError == createApiError("unknown", Null, FALSE, Null)

\* response.ok
ResponseOk(status) == status >= 200 /\ status <= 299

\* (mutant) 403 is not told apart from the other 4xx
handleHttpError401Only(statusCode, hdr) ==
  IF statusCode >= 500 THEN createApiError("server", statusCode, TRUE, Null)
  ELSE IF statusCode = 429
    THEN createApiError("rate_limit", statusCode, TRUE,
                        (IF hdr = Null THEN DefaultRetryAfter ELSE hdr) * 1000)
  ELSE IF statusCode = 401
    THEN createApiError("auth", statusCode, FALSE, Null)
  ELSE IF statusCode >= 400 THEN createApiError("client", statusCode, FALSE, Null)
  ELSE createApiError("unknown", statusCode, FALSE, Null)

\* handleHttpError: hdr is the Retry-After header in seconds, Null when absent
handleHttpError(statusCode, hdr) ==
  IF statusCode >= 500 THEN createApiError("server", statusCode, TRUE, Null)
  ELSE IF statusCode = 429
    THEN createApiError("rate_limit", statusCode, TRUE,
                        (IF hdr = Null THEN DefaultRetryAfter ELSE hdr) * 1000)
  ELSE IF statusCode = 401 \/ statusCode = 403
    THEN createApiError("auth", statusCode, FALSE, Null)
  ELSE IF statusCode >= 400 THEN createApiError("client", statusCode, FALSE, Null)
  ELSE createApiError("unknown", statusCode, FALSE, Null)

RECURSIVE Pow2(_)
Pow2(n) == IF n = 0 THEN 1 ELSE 2 * Pow2(n - 1)

Min(a, b) == IF a <= b THEN a ELSE b

\* (mutant) the delay is not capped
calculateRetryDelayNoCap(retryCount, random) ==
  retryDelay * Pow2(retryCount) + (random * retryDelay * Pow2(retryCount)) \div 10000

\* calculateRetryDelay: Math.random() is random / 1000, random in 0..999
calculateRetryDelay(retryCount, random) ==
  LET baseDelay == retryDelay * Pow2(retryCount)
      jitter    == (random * baseDelay) \div 10000
  IN Min(baseDelay + jitter, MaxDelay)

\* recordFailure
recordFailure(f, t) == [failures |-> f + 1, lastFailure |-> t]

\* isCircuitBreakerOpen: its answer, and the counters as it leaves them
isCircuitBreakerOpen(f, l, t) ==
  IF f < circuitBreakerThreshold THEN [open |-> FALSE, failures |-> f, lastFailure |-> l]
  ELSE IF l = Null THEN [open |-> FALSE, failures |-> f, lastFailure |-> l]
  ELSE IF t - l > circuitBreakerResetTime
    THEN [open |-> FALSE, failures |-> 0, lastFailure |-> Null]
  ELSE [open |-> TRUE, failures |-> f, lastFailure |-> l]

\* lines 112-117: the response is an error to classify, or a success whose
\* body goes to the caller
Classify(status, hdr) ==
  [ok |-> ResponseOk(status),
   err |-> IF ResponseOk(status) THEN NoApiError
                                 ELSE handleHttpError(status, hdr)]

-----------------------------------------------------------------------------
(* SpecPure: calculateRetryDelay and the classification of a response, each  *)
(* applied to one input drawn from a bounded set                             *)

\* Math.random() * 1000
Randoms == {0, 1, 500, 999}

\* statuses a response can carry (200..599), around every boundary of
\* handleHttpError and of response.ok
Statuses ==
  {200, 204, 299, 300, 304, 399, 400, 401, 402, 403, 404, 428, 429, 430, 499,
   500, 503, 599}

\* Retry-After in seconds, Null when the header is absent
RetryAfters == {Null, 1, 120}

NoCall == [op |-> "none"]

NoRet == [op |-> "none"]

DelayCalls ==
  {[op |-> "calculateRetryDelay", retryCount |-> n, random |-> r] :
     n \in 0..MaxRetryCount, r \in Randoms}

ClassifyCalls ==
  {[op |-> "classify", status |-> st, hdr |-> h] :
     st \in Statuses, h \in RetryAfters}

CalculateRetryDelay ==
  /\ call.op = "calculateRetryDelay"
  /\ ret = NoRet
  /\ ret' = [op |-> call.op,
             delay |-> calculateRetryDelay(call.retryCount, call.random)]
  /\ UNCHANGED <<now, ticks, rlVars, clientVars, call>>

ClassifyResponse ==
  /\ call.op = "classify"
  /\ ret = NoRet
  /\ ret' = [op |-> call.op] @@ Classify(call.status, call.hdr)
  /\ UNCHANGED <<now, ticks, rlVars, clientVars, call>>

InitPureVars ==
  /\ call = NoCall
  /\ ret = NoRet

NextPure == CalculateRetryDelay \/ ClassifyResponse

-----------------------------------------------------------------------------
(* ApiService: state and operations.  B is the record of bounds of a run:    *)
(* pipes (concurrent pipelines), waiters (passengers per pipeline), ticks,   *)
(* steps (clock steps in ms), reqs, statuses, hdrs (Retry-After values),     *)
(* randoms (values of Math.random() * 1000), streak (failStreak is kept)     *)

ChatRequest(message) ==
  [message |-> message, personality |-> <<"f">>, gender |-> <<"m">>,
   language |-> <<"e", "n">>]

NoRequest == ChatRequest(<<>>)

Requests == {ChatRequest(<<"h", "i">>), ChatRequest(<<Quote>>)}

\* the key of each request, computed once
KeyOf == [r \in Requests \cup {NoRequest} |-> RequestKey(r)]

FreePipe ==
  [st |-> "free", req |-> NoRequest, retryCount |-> 0, start |-> Null,
   status |-> Null, hdr |-> Null, wakeAt |-> Null, waiters |-> <<>>,
   probe |-> FALSE, asleep |-> FALSE]

NoCallResult ==
  [req |-> NoRequest, ok |-> FALSE, err |-> NoApiError, attempts |-> 0,
   waits |-> 0, callers |-> 0, probe |-> FALSE, asleep |-> FALSE]

Live(p) == pipes[p].st # "free"

\* this step delivers no outcome
Quiet == lastResult' = NoCallResult

\* the promise of a call that is answered before any await: nothing is left
\* in the queue once its finally block has run
Rejected(r, err) ==
  [req |-> r, ok |-> FALSE, err |-> err, attempts |-> 0, waits |-> 0,
   callers |-> 1, probe |-> FALSE, asleep |-> FALSE]

\* history: a call that owned a pipeline ends the streak of failed calls when
\* it succeeds and extends it when it fails
Streak(B, ok) ==
  IF ~B.streak THEN failStreak
  ELSE IF ok THEN 0
  ELSE Min(failStreak + 1, circuitBreakerThreshold)

\* a finally block that leaves the entry in the queue
FinallyKeep(queue, key) == queue

\* sendChatMessage, finally: this.requestQueue.delete(requestKey)
Finally(queue, key) == MapDelete(queue, {key})

\* The promise of pipeline p settles: the owner and every passenger get the
\* same outcome, the owner's finally block deletes the key
Settle(B, p, ok, err, attempts, waits) ==
  /\ pipes' = [pipes EXCEPT ![p] = FreePipe]
  /\ requestQueue' = Finally(requestQueue, KeyOf[pipes[p].req])
  /\ lastResult' = [req |-> pipes[p].req, ok |-> ok, err |-> err,
                    attempts |-> attempts, waits |-> waits,
                    callers |-> 1 + Len(pipes[p].waiters),
                    probe |-> pipes[p].probe,
                    asleep |-> pipes[p].asleep]
  /\ failStreak' = Streak(B, ok)

\* an entry that does not look at the connection status
EntryNoOfflineCheck(f, l, t, online) ==
  LET cb == isCircuitBreakerOpen(f, l, t)
  IN [cb |-> cb, go |-> IF cb.open THEN "breaker" ELSE "fetch"]

\* makeRequest, lines 77-100: the breaker, then the offline check, then fetch
Entry(f, l, t, online) ==
  LET cb == isCircuitBreakerOpen(f, l, t)
  IN [cb |-> cb,
      go |-> IF cb.open THEN "breaker" ELSE IF ~online THEN "offline" ELSE "fetch"]

\* lines 222-227: the breaker had tripped and its window is over, so this
\* check closes it and lets the call through as the probe
Probing(f, l, t) ==
  /\ f >= circuitBreakerThreshold
  /\ l # Null
  /\ t - l > circuitBreakerResetTime

\* (mutant) a retry that leaves the passengers of the call behind
StartFetchAlone(r, retryCount, waiters, probe) ==
  [st |-> "fetch", req |-> r, retryCount |-> retryCount, start |-> now,
   status |-> Null, hdr |-> Null, wakeAt |-> Null, waiters |-> <<>>,
   probe |-> probe, asleep |-> FALSE]

StartFetch(r, retryCount, waiters, probe) ==
  [st |-> "fetch", req |-> r, retryCount |-> retryCount, start |-> now,
   status |-> Null, hdr |-> Null, wakeAt |-> Null, waiters |-> waiters,
   probe |-> probe, asleep |-> FALSE]

FirstFree(B) ==
  CHOOSE p \in B.pipes : ~Live(p) /\ \A q \in B.pipes : q < p => Live(q)

\* line 245: this.requestQueue.has(requestKey)
InFlight(key) == Has(requestQueue, key)

\* sendChatMessage(request), up to its first await
SendChatMessage(B) ==
  \E r \in B.reqs :
    LET key == KeyOf[r]
        e   == Entry(circuitBreakerFailures, circuitBreakerLastFailure, now,
                     connectionStatus.isOnline)
    IN IF InFlight(key)
         THEN \* a passenger: it is handed the owner's promise
           /\ Len(pipes[requestQueue[key]].waiters) < B.waiters
           /\ pipes' = [pipes EXCEPT
                          ![requestQueue[key]].waiters = Append(@, r),
                          ![requestQueue[key]].asleep =
                             \/ @
                             \/ (B.joins /\ pipes[requestQueue[key]].st = "sleep")]
           /\ Quiet
           /\ UNCHANGED <<connectionStatus, breakerVars, requestQueue,
                          healthStart, failStreak>>
         ELSE
           /\ circuitBreakerFailures' = e.cb.failures
           /\ circuitBreakerLastFailure' = e.cb.lastFailure
           /\ IF e.go = "fetch"
                THEN /\ \E p \in B.pipes : ~Live(p)
                     /\ pipes' = [pipes EXCEPT ![FirstFree(B)] =
                                    StartFetch(r, 0, <<>>,
                                      Probing(circuitBreakerFailures,
                                              circuitBreakerLastFailure, now))]
                     /\ requestQueue' = MapSet(requestQueue, key, FirstFree(B))
                     /\ Quiet
                ELSE /\ lastResult' =
                          Rejected(r, IF e.go = "breaker" THEN BreakerError
                                                          ELSE OfflineError)
                     /\ UNCHANGED <<pipes, requestQueue>>
           /\ UNCHANGED <<connectionStatus, healthStart, failStreak>>

\* (mutant) a response leaves the counters of the breaker alone
KeepOnResponse(f, l) == [failures |-> f, lastFailure |-> l]

\* (mutant) a response resets the counter and keeps the failure time
ResetCounterOnly(f, l) == [failures |-> 0, lastFailure |-> l]

\* lines 108-110: the counters of the breaker after a response has arrived
ResetOnResponse(f, l) == [failures |-> 0, lastFailure |-> Null]

\* (mutant) a response also marks the client online
StatusOnResponseOnline(cs, start, t) ==
  [isOnline |-> TRUE, responseTime |-> t - start, lastChecked |-> t]

\* lines 105-106: the connection status after a response has arrived
StatusOnResponse(cs, start, t) ==
  [cs EXCEPT !.responseTime = t - start, !.lastChecked = t]

\* fetch resolves with a response: lines 102-117, up to the await of the body
FetchResponse(B) ==
  \E p \in B.pipes, status \in B.statuses, hdr \in B.hdrs :
    /\ pipes[p].st = "fetch"
    /\ hdr # Null => status = 429
    /\ connectionStatus' = StatusOnResponse(connectionStatus, pipes[p].start, now)
    /\ circuitBreakerFailures' =
         ResetOnResponse(circuitBreakerFailures, circuitBreakerLastFailure).failures
    /\ circuitBreakerLastFailure' =
         ResetOnResponse(circuitBreakerFailures, circuitBreakerLastFailure).lastFailure
    /\ pipes' = [pipes EXCEPT ![p].st = IF ResponseOk(status) THEN "okbody"
                                                              ELSE "errbody",
                              ![p].status = status, ![p].hdr = hdr]
    /\ Quiet
    /\ UNCHANGED <<requestQueue, healthStart, failStreak>>

\* what fetch or response.json() can throw besides an abort
Thrown == {"TypeError: fetch", "Error"}

\* the catch block for what is thrown while no ApiError exists yet:
\* lines 119-128 and 146-148
Catch(B, p, thrown) ==
  IF thrown = "TypeError: fetch"
    THEN /\ Settle(B, p, FALSE, NetworkError, pipes[p].retryCount + 1,
                   pipes[p].retryCount)
         /\ UNCHANGED breakerVars
    ELSE /\ circuitBreakerFailures' =
              recordFailure(circuitBreakerFailures, now).failures
         /\ circuitBreakerLastFailure' =
              recordFailure(circuitBreakerFailures, now).lastFailure
         /\ Settle(B, p, FALSE, UnknownError, pipes[p].retryCount + 1,
                   pipes[p].retryCount)

\* fetch rejects: the transport failed
FetchFails(B) ==
  \E p \in B.pipes, thrown \in Thrown :
    /\ pipes[p].st = "fetch"
    /\ Catch(B, p, thrown)
    /\ UNCHANGED <<connectionStatus, healthStart>>

\* the timer of line 88 fires: controller.abort(), fetch rejects with AbortError
Abort(B) ==
  \E p \in B.pipes :
    /\ pipes[p].st = "fetch"
    /\ now >= pipes[p].start + timeout
    /\ Settle(B, p, FALSE, TimeoutError, pipes[p].retryCount + 1,
              pipes[p].retryCount)
    /\ UNCHANGED <<connectionStatus, breakerVars, healthStart>>

\* (mutant) one retry more than the budget
ShouldRetryOneMore(err, retryCount) == err.retryable /\ retryCount <= maxRetries

\* (mutant) every error is retried while the budget lasts
ShouldRetryAlways(err, retryCount) == retryCount < maxRetries

\* line 135
ShouldRetry(err, retryCount) == err.retryable /\ retryCount < maxRetries

\* handleHttpError has read the error body: the ApiError is thrown and caught,
\* lines 130-144
ErrorBody(B) ==
  \E p \in B.pipes, random \in B.randoms :
    LET err == handleHttpError(pipes[p].status, pipes[p].hdr)
        rf  == recordFailure(circuitBreakerFailures, now)
    IN /\ pipes[p].st = "errbody"
       /\ circuitBreakerFailures' = rf.failures
       /\ circuitBreakerLastFailure' = rf.lastFailure
       /\ IF ShouldRetry(err, pipes[p].retryCount)
            THEN /\ pipes' = [pipes EXCEPT
                       ![p].st = "sleep",
                       ![p].wakeAt = now + calculateRetryDelay(pipes[p].retryCount,
                                                               random)]
                 /\ Quiet
                 /\ UNCHANGED <<requestQueue, failStreak>>
            ELSE Settle(B, p, FALSE, err, pipes[p].retryCount + 1,
                        pipes[p].retryCount)
       /\ UNCHANGED <<connectionStatus, healthStart>>

\* response.json() of an ok response resolves, or throws on a bad body
OkBody(B) ==
  \E p \in B.pipes, good \in BOOLEAN :
    /\ pipes[p].st = "okbody"
    /\ IF good
         THEN /\ Settle(B, p, TRUE, NoApiError, pipes[p].retryCount + 1,
                        pipes[p].retryCount)
              /\ UNCHANGED breakerVars
         ELSE Catch(B, p, "Error")
    /\ UNCHANGED <<connectionStatus, healthStart>>

\* (mutant) a retry that goes straight to its fetch
ReentryNoCheck(f, l, t, online) ==
  [cb |-> [open |-> FALSE, failures |-> f, lastFailure |-> l], go |-> "fetch"]

\* line 140: the retry is a call of makeRequest, which starts at line 77
Reentry(f, l, t, online) == Entry(f, l, t, online)

\* the sleep of line 139 is over: makeRequest(url, options, retryCount + 1)
Wake(B) ==
  \E p \in B.pipes :
    LET e == Reentry(circuitBreakerFailures, circuitBreakerLastFailure, now,
                   connectionStatus.isOnline)
    IN /\ pipes[p].st = "sleep"
       /\ now >= pipes[p].wakeAt
       /\ circuitBreakerFailures' = e.cb.failures
       /\ circuitBreakerLastFailure' = e.cb.lastFailure
       /\ IF e.go = "fetch"
            THEN /\ pipes' = [pipes EXCEPT ![p] =
                       [StartFetch(pipes[p].req, pipes[p].retryCount + 1,
                                   pipes[p].waiters,
                                   \/ pipes[p].probe
                                   \/ Probing(circuitBreakerFailures,
                                              circuitBreakerLastFailure, now))
                          EXCEPT !.asleep = pipes[p].asleep]]
                 /\ Quiet
                 /\ UNCHANGED <<requestQueue, failStreak>>
            ELSE Settle(B, p, FALSE,
                        IF e.go = "breaker" THEN BreakerError ELSE OfflineError,
                        pipes[p].retryCount + 1, pipes[p].retryCount + 1)
       /\ UNCHANGED <<connectionStatus, healthStart>>

\* window 'online' / 'offline' events
Online(B) ==
  /\ connectionStatus' = [connectionStatus EXCEPT !.isOnline = TRUE,
                                                  !.lastChecked = now]
  /\ lastSignal' = IF B.signal THEN "online" ELSE lastSignal
  /\ Quiet
  /\ UNCHANGED <<breakerVars, requestQueue, pipes, healthStart, failStreak>>

Offline(B) ==
  /\ connectionStatus' = [connectionStatus EXCEPT !.isOnline = FALSE,
                                                  !.lastChecked = now]
  /\ lastSignal' = IF B.signal THEN "offline" ELSE lastSignal
  /\ Quiet
  /\ UNCHANGED <<breakerVars, requestQueue, pipes, healthStart, failStreak>>

\* clearRequestQueue()
clearRequestQueue ==
  /\ requestQueue' = EmptyMap
  /\ Quiet
  /\ UNCHANGED <<connectionStatus, breakerVars, pipes, healthStart, failStreak>>

\* getMetrics(): it calls isCircuitBreakerOpen()
getMetrics ==
  LET cb == isCircuitBreakerOpen(circuitBreakerFailures, circuitBreakerLastFailure,
                                 now)
  IN /\ circuitBreakerFailures' = cb.failures
     /\ circuitBreakerLastFailure' = cb.lastFailure
     /\ Quiet
     /\ UNCHANGED <<connectionStatus, requestQueue, pipes, healthStart,
                    failStreak>>

\* getConnectionStatus(): a copy of the status
getConnectionStatus == connectionStatus

\* checkHealth(), up to its await of fetch
HealthStart ==
  /\ healthStart = Null
  /\ healthStart' = now
  /\ Quiet
  /\ UNCHANGED <<connectionStatus, breakerVars, requestQueue, pipes, failStreak>>

\* checkHealth(), lines 279-288: fetch resolved within the 5 seconds of its
\* signal (ok or not), or it threw
HealthDone ==
  /\ healthStart # Null
  /\ \E outcome \in {"ok", "not ok", "throws"} :
       /\ outcome # "throws" => now - healthStart <= healthTimeout
       /\ connectionStatus' =
            IF outcome = "throws"
              THEN [connectionStatus EXCEPT !.isOnline = FALSE,
                                            !.lastChecked = now]
              ELSE [isOnline |-> outcome = "ok", lastChecked |-> now,
                    responseTime |-> now - healthStart]
  /\ healthStart' = Null
  /\ Quiet
  /\ UNCHANGED <<breakerVars, requestQueue, pipes, failStreak>>

Tick(B) ==
  /\ ticks < B.ticks
  /\ \E d \in B.steps : now' = now + d
  /\ ticks' = ticks + 1
  /\ Quiet
  /\ UNCHANGED <<rlVars, pureVars, connectionStatus, breakerVars, requestQueue, pipes,
                 healthStart, failStreak, lastSignal, simple>>

\* makeRequest and the transport
Pipeline(B) ==
  \/ SendChatMessage(B) /\ UNCHANGED <<now, ticks, rlVars, pureVars, lastSignal, simple>>
  \/ FetchResponse(B) /\ UNCHANGED <<now, ticks, rlVars, pureVars, lastSignal, simple>>
  \/ FetchFails(B) /\ UNCHANGED <<now, ticks, rlVars, pureVars, lastSignal, simple>>
  \/ Abort(B) /\ UNCHANGED <<now, ticks, rlVars, pureVars, lastSignal, simple>>
  \/ ErrorBody(B) /\ UNCHANGED <<now, ticks, rlVars, pureVars, lastSignal, simple>>
  \/ OkBody(B) /\ UNCHANGED <<now, ticks, rlVars, pureVars, lastSignal, simple>>
  \/ Wake(B) /\ UNCHANGED <<now, ticks, rlVars, pureVars, lastSignal, simple>>
  \/ Tick(B)

\* the environment's signals
Signals(B) ==
  \/ Online(B) /\ UNCHANGED <<now, ticks, rlVars, pureVars, simple>>
  \/ Offline(B) /\ UNCHANGED <<now, ticks, rlVars, pureVars, simple>>

\* the other public operations
Operations ==
  \/ clearRequestQueue /\ UNCHANGED <<now, ticks, rlVars, pureVars, lastSignal, simple>>
  \/ getMetrics /\ UNCHANGED <<now, ticks, rlVars, pureVars, lastSignal, simple>>
  \/ HealthStart /\ UNCHANGED <<now, ticks, rlVars, pureVars, lastSignal, simple>>
  \/ HealthDone /\ UNCHANGED <<now, ticks, rlVars, pureVars, lastSignal, simple>>

-----------------------------------------------------------------------------
(* The simple client (src/src/utils/apiService.ts): ApiService with the      *)
(* options of the exported instance.  Messages are sequences of characters  *)
(* so that message.includes('fetch') is computed.                            *)

simpleMaxRetries == 3

simpleTimeout == 30000

simpleRetryDelay == 1000

\* the message of the TypeError a Chromium fetch rejects with
FailedToFetch ==
  <<"F", "a", "i", "l", "e", "d", " ", "t", "o", " ", "f", "e", "t", "c",
    "h">>

\* the message of the TypeError a WebKit fetch rejects with
LoadFailed ==
  <<"L", "o", "a", "d", " ", "f", "a", "i", "l", "e", "d">>

\* line 68
ServerErrorPrefix ==
  <<"S", "e", "r", "v", "e", "r", " ", "e", "r", "r", "o", "r", ":", " ">>

\* line 74
RequestFailedPrefix ==
  <<"R", "e", "q", "u", "e", "s", "t", " ", "f", "a", "i", "l", "e", "d",
    " ", "w", "i", "t", "h", " ", "s", "t", "a", "t", "u", "s", " ">>

\* the error field of a 400 body of the chat route
MessageRequired ==
  <<"M", "e", "s", "s", "a", "g", "e", " ", "i", "s", " ", "r", "e", "q",
    "u", "i", "r", "e", "d">>

\* the message of the TypeError of errorData.error when errorData is null
NullHasNoError ==
  <<"C", "a", "n", "n", "o", "t", " ", "r", "e", "a", "d", " ", "p", "r",
    "o", "p", "e", "r", "t", "i", "e", "s", " ", "o", "f", " ", "n", "u",
    "l", "l", " ", "(", "r", "e", "a", "d", "i", "n", "g", " ", "'", "e",
    "r", "r", "o", "r", "'", ")">>

\* the message of the SyntaxError of response.json() on a cut body
UnexpectedEnd ==
  <<"U", "n", "e", "x", "p", "e", "c", "t", "e", "d", " ", "e", "n", "d",
    " ", "o", "f", " ", "J", "S", "O", "N", " ", "i", "n", "p", "u", "t">>

\* the message of the AbortError
AbortedMessage ==
  <<"T", "h", "e", " ", "o", "p", "e", "r", "a", "t", "i", "o", "n", " ",
    "w", "a", "s", " ", "a", "b", "o", "r", "t", "e", "d", ".">>

\* line 90
TimedOutMessage ==
  <<"R", "e", "q", "u", "e", "s", "t", " ", "t", "i", "m", "e", "d", " ",
    "o", "u", "t", ".", " ", "P", "l", "e", "a", "s", "e", " ", "t", "r",
    "y", " ", "a", "g", "a", "i", "n", ".">>

\* line 111
UnableToConnect ==
  <<"U", "n", "a", "b", "l", "e", " ", "t", "o", " ", "c", "o", "n", "n",
    "e", "c", "t", " ", "t", "o", " ", "t", "h", "e", " ", "s", "e", "r",
    "v", "e", "r", ".", " ", "P", "l", "e", "a", "s", "e", " ", "c", "h",
    "e", "c", "k", " ", "y", "o", "u", "r", " ", "i", "n", "t", "e", "r",
    "n", "e", "t", " ", "c", "o", "n", "n", "e", "c", "t", "i", "o", "n",
    " ", "a", "n", "d", " ", "t", "r", "y", " ", "a", "g", "a", "i", "n",
    ".">>

\* line 112
UnexpectedMessage ==
  <<"A", "n", " ", "u", "n", "e", "x", "p", "e", "c", "t", "e", "d", " ",
    "e", "r", "r", "o", "r", " ", "o", "c", "c", "u", "r", "r", "e", "d",
    ".", " ", "P", "l", "e", "a", "s", "e", " ", "t", "r", "y", " ", "a",
    "g", "a", "i", "n", ".">>

\* line 110: the word looked for
FetchWord ==
  <<"f", "e", "t", "c", "h">>

\* the response field of a 200 body
Hello ==
  <<"H", "e", "l", "l", "o", "!">>

\* s.startsWith(p)
StartsWith(s, p) == Len(p) <= Len(s) /\ SubSeq(s, 1, Len(p)) = p

\* String.prototype.includes
RECURSIVE Includes(_, _)
Includes(s, sub) ==
  IF Len(s) < Len(sub) THEN FALSE
  ELSE StartsWith(s, sub) \/ Includes(Tail(s), sub)

\* `${n}` for a natural number
RECURSIVE Digits(_)
Digits(n) ==
  IF n < 10 THEN <<Digit(n)>> ELSE Digits(n \div 10) \o <<Digit(n % 10)>>

\* what can be thrown inside the try block of sendChatMessage
Exception(name, message) == [name |-> name, message |-> message]

\* lastError = null
NoThrown == Exception("null", <<>>)

AbortError == Exception("AbortError", AbortedMessage)

\* what fetch rejects with when the transport fails
TransportErrors ==
  {Exception("TypeError", FailedToFetch), Exception("TypeError", LoadFailed)}

\* line 68
ServerError(status) == Exception("Error", ServerErrorPrefix \o Digits(status))

\* no value has been returned yet
NoSimpleResult == [returned |-> FALSE, threw |-> FALSE, response |-> <<>>, error |-> <<>>]

\* return { response: '', error }
ErrorValue(error) ==
  [returned |-> TRUE, threw |-> FALSE, response |-> <<>>, error |-> error]

\* return data: the body of the response as it is
DataValue(response) ==
  [returned |-> TRUE, threw |-> FALSE, response |-> response, error |-> <<>>]

\* lines 108-113; an empty message is falsy
FinalError(lastError) ==
  IF lastError = NoThrown THEN ErrorValue(UnexpectedMessage)
  ELSE IF Includes(lastError.message, FetchWord) THEN ErrorValue(UnableToConnect)
  ELSE IF lastError.message # <<>> THEN ErrorValue(lastError.message)
  ELSE ErrorValue(UnexpectedMessage)

\* the call before it is made: one call at a time, attempt is the loop's index
SimpleIdle ==
  [st |-> "idle", attempt |-> 0, fetches |-> 0, timer |-> FALSE, start |-> Null,
   status |-> Null, wakeAt |-> Null, waited |-> <<>>, lastError |-> NoThrown,
   result |-> NoSimpleResult]

\* (mutant) a backoff that grows by retryDelay each time
BackoffLinear(attempt) == simpleRetryDelay * (attempt + 1)

\* line 102: this.retryDelay * Math.pow(2, attempt)
Backoff(attempt) == simpleRetryDelay * Pow2(attempt)

\* line 87
IsAbort(error) == error.name = "AbortError"

\* fetchWithTimeout, lines 35-42: the timer is armed and fetch is called
FetchWithTimeout(s, t) ==
  [s EXCEPT !.st = "fetch", !.fetches = @ + 1, !.timer = TRUE, !.start = t,
            !.status = Null]

\* a return statement
Return(s, value) == [s EXCEPT !.st = "done", !.result = value]

\* the catch block, lines 82-104, and the loop's next turn or its end
SimpleCatch(s, error, t) ==
  LET s1 == [s EXCEPT !.lastError = error]
  IN IF IsAbort(error) THEN Return(s1, ErrorValue(TimedOutMessage))
     ELSE IF s.attempt = simpleMaxRetries THEN Return(s1, FinalError(error))
     ELSE IF s.attempt < simpleMaxRetries
       THEN [s1 EXCEPT !.st = "delay", !.wakeAt = t + Backoff(s.attempt),
                       !.waited = Append(@, Backoff(s.attempt))]
     ELSE Return(s1, FinalError(error))

otherVars ==
  <<now, ticks, rlVars, pureVars, connectionStatus, breakerVars, requestQueue,
    pipes, healthStart, lastResult, failStreak, lastSignal>>

\* statuses a response to the simple client can carry
SimpleStatuses == {200, 302, 400, 429, 503}

\* what the body of a 4xx response parses to
ErrorBodies == {"error field", "no error field", "not JSON", "null"}

\* sendChatMessage(request), up to the first await
SimpleSendChatMessage ==
  /\ simple.st \in {"idle", "done"}
  /\ simple' = FetchWithTimeout(SimpleIdle, now)
  /\ UNCHANGED otherVars

\* fetch resolves: line 43 clears the timer, lines 64-79 look at the status
SimpleResponse ==
  \E status \in SimpleStatuses :
    LET s == [simple EXCEPT !.timer = FALSE, !.status = status]
    IN /\ simple.st = "fetch"
       /\ simple' =
            IF ResponseOk(status) THEN [s EXCEPT !.st = "body"]
            ELSE IF status >= 500 THEN SimpleCatch(s, ServerError(status), now)
            ELSE IF status >= 400 THEN [s EXCEPT !.st = "errbody"]
            ELSE [s EXCEPT !.st = "body"]
       /\ UNCHANGED otherVars

\* fetch rejects because the transport failed: line 46 clears the timer
SimpleFetchFails ==
  \E error \in TransportErrors :
    /\ simple.st = "fetch"
    /\ simple' = SimpleCatch([simple EXCEPT !.timer = FALSE], error, now)
    /\ UNCHANGED otherVars

\* the timer of line 36 fires: fetch rejects with an AbortError
SimpleAbort ==
  /\ simple.st = "fetch"
  /\ simple.timer
  /\ now >= simple.start + simpleTimeout
  /\ simple' = SimpleCatch([simple EXCEPT !.timer = FALSE], AbortError, now)
  /\ UNCHANGED otherVars

\* lines 71-75: the body of a 4xx response has been read
SimpleErrorBody ==
  \E body \in ErrorBodies :
    /\ simple.st = "errbody"
    /\ simple' =
         CASE body = "error field" -> Return(simple, ErrorValue(MessageRequired))
           [] body \in {"no error field", "not JSON"} ->
                Return(simple,
                       ErrorValue(RequestFailedPrefix \o Digits(simple.status)))
           [] body = "null" ->
                SimpleCatch(simple, Exception("TypeError", NullHasNoError), now)
    /\ UNCHANGED otherVars

\* lines 79-80: the body of the response has been read, or could not be
SimpleBody ==
  \E good \in BOOLEAN :
    /\ simple.st = "body"
    /\ simple' = IF good THEN Return(simple, DataValue(Hello))
                 ELSE SimpleCatch(simple, Exception("SyntaxError", UnexpectedEnd),
                                  now)
    /\ UNCHANGED otherVars

\* the delay of line 102 is over: the loop's next turn
SimpleWake ==
  /\ simple.st = "delay"
  /\ now >= simple.wakeAt
  /\ simple' = FetchWithTimeout([simple EXCEPT !.attempt = @ + 1], now)
  /\ UNCHANGED otherVars

\* the clock of a run of the simple client: it advances, by more than any
\* backoff, while a timer of the call is pending
SimpleTick ==
  /\ ticks < MaxSimpleTicks
  /\ \/ simple.st = "delay" /\ now < simple.wakeAt
     \/ simple.st = "fetch" /\ now < simple.start + simpleTimeout
  /\ now' = now + 30000
  /\ ticks' = ticks + 1
  /\ UNCHANGED <<rlVars, pureVars, clientVars>>

\* what the transport does to a call: it answers, fails, or hands over a body
SimpleTransport ==
  SimpleResponse \/ SimpleFetchFails \/ SimpleErrorBody \/ SimpleBody

NextSimple ==
  \/ SimpleSendChatMessage
  \/ SimpleResponse
  \/ SimpleFetchFails
  \/ SimpleAbort
  \/ SimpleErrorBody
  \/ SimpleBody
  \/ SimpleWake
  \/ SimpleTick

InitClientVars ==
  /\ simple = SimpleIdle
  /\ connectionStatus \in
       {[isOnline |-> o, lastChecked |-> 0, responseTime |-> Null] : o \in BOOLEAN}
  /\ circuitBreakerFailures = 0
  /\ circuitBreakerLastFailure = Null
  /\ requestQueue = EmptyMap
  /\ pipes = [p \in Pipes |-> FreePipe]
  /\ healthStart = Null
  /\ lastResult = NoCallResult
  /\ failStreak = 0
  /\ lastSignal = "none"

\* the second limiter before its first check
NoTwin ==
  [config |-> RATE_LIMITS_chat, store |-> EmptyMap, ret |-> NoResult.ret,
   admitted |-> 0]

InitRLVars ==
  /\ twin = NoTwin
  /\ postResponse = NoResponse
  /\ store = EmptyMap
  /\ shadow = EmptyMap
  /\ sweeping = TRUE
  /\ rlResult = NoResult
  /\ admitLog = EmptyMap

\* the client alone; the limiter of the server is left as constructed
Init ==
  /\ now = 0
  /\ ticks = 0
  /\ config = RATE_LIMITS_chat
  /\ InitRLVars
  /\ InitClientVars
  /\ InitPureVars

\* Spec: one pipeline at a time (and its passengers), every operation and
\* signal, every class of response
Bounds ==
  [pipes |-> {1}, waiters |-> MaxWaiters, ticks |-> MaxTicks,
   steps |-> {30000}, reqs |-> Requests,
   statuses |-> {200, 300, 400, 401, 429, 503}, hdrs |-> {Null},
   randoms |-> {0}, streak |-> FALSE, signal |-> FALSE, joins |-> FALSE]

Next == Pipeline(Bounds) \/ Signals(Bounds) \/ Operations

\* SpecConcurrent: the pipelines of Pipes in flight at once
BoundsConcurrent ==
  [pipes |-> Pipes, waiters |-> MaxWaiters, ticks |-> MaxConcurrentTicks,
   steps |-> {30000}, reqs |-> Requests,
   statuses |-> {200, 503}, hdrs |-> {Null}, randoms |-> {0},
   streak |-> FALSE, signal |-> FALSE, joins |-> FALSE]

NextConcurrent ==
  \/ Pipeline(BoundsConcurrent)
  \/ clearRequestQueue /\ UNCHANGED <<now, ticks, rlVars, pureVars, lastSignal, simple>>
  \/ getMetrics /\ UNCHANGED <<now, ticks, rlVars, pureVars, lastSignal, simple>>

\* SpecStreak: calls one after another, with the history of how many in a row
\* have failed
BoundsStreak ==
  [pipes |-> {1}, waiters |-> MaxWaiters, ticks |-> MaxStreakTicks,
   steps |-> {30000}, reqs |-> Requests,
   statuses |-> {200, 401, 503}, hdrs |-> {Null}, randoms |-> {0},
   streak |-> TRUE, signal |-> FALSE, joins |-> FALSE]

NextStreak ==
  \/ Pipeline(BoundsStreak)
  \/ getMetrics /\ UNCHANGED <<now, ticks, rlVars, pureVars, lastSignal, simple>>

\* the pure functions alone
InitPure ==
  /\ now = 0
  /\ ticks = 0
  /\ config = RATE_LIMITS_chat
  /\ InitRLVars
  /\ InitClientVars
  /\ call \in DelayCalls \cup ClassifyCalls
  /\ ret = NoRet

\* the limiter alone; the client is left as constructed
InitRL ==
  /\ now = 0
  /\ ticks = 0
  /\ config \in Configs
  /\ InitRLVars
  /\ InitClientVars
  /\ InitPureVars
  /\ connectionStatus.isOnline

NextRL == CheckRateLimit \/ cleanup \/ destroy \/ RLTick

vars == <<now, ticks, rlVars, clientVars, pureVars>>

SpecRL == InitRL /\ [][NextRL]_vars

\* SpecKeys: one caller on two routes, each under its own policy, and a
\* second caller whose identity ends like a key of the first
Pairs ==
  { <<"10.0.0.1", "chat">>, <<"10.0.0.1", "health">>, <<"10.0.0.1:chat", "chat">> }

PolicyOf(endpoint) ==
  IF endpoint = "chat"
    THEN [perMinute |-> 2, perHour |-> 100, burstLimit |-> 2, burstWindow |-> 5000]
    ELSE [perMinute |-> 3, perHour |-> 100, burstLimit |-> 1, burstWindow |-> 10000]

CheckPair ==
  /\ \E pr \in Pairs : checkRateLimit(pr[1], pr[2], PolicyOf(pr[2]))
  /\ UNCHANGED <<postResponse, twin>>

InitKeys == InitRL /\ config = PolicyOf("chat")

KeysTick == RLTickBy(MaxKeysTicks, {55000})

NextKeys == CheckPair \/ cleanup \/ destroy \/ KeysTick

SpecKeys == InitKeys /\ [][NextKeys]_vars

\* SpecPost: the chat route in front of the limiter, under RATE_LIMITS.chat or
\* under a policy small enough for the sustained gate to close
InitPost ==
  /\ now = 0
  /\ ticks = 0
  /\ config \in Configs \cup {RATE_LIMITS_chat}
  /\ InitRLVars
  /\ InitClientVars
  /\ InitPureVars
  /\ connectionStatus.isOnline

PostTick == RLTickBy(MaxPostTicks, {2500, 5000})

NextPost == POST \/ cleanup \/ destroy \/ PostTick

SpecPost == InitPost /\ [][NextPost]_vars

\* SpecHour: two limiters side by side.  They are fed the same checks at the
\* same times, swept and destroyed together, and their policies differ in
\* perHour only
PerHours == {1, 3, 100}

HourConfigs ==
  { [perMinute |-> 2, perHour |-> h, burstLimit |-> 2, burstWindow |-> 5000] :
      h \in PerHours }

InitHour ==
  /\ now = 0
  /\ ticks = 0
  /\ config \in HourConfigs
  /\ twin \in {[NoTwin EXCEPT !.config = c] :
                 c \in {d \in HourConfigs : d.perHour # config.perHour}}
  /\ postResponse = NoResponse
  /\ store = EmptyMap
  /\ shadow = EmptyMap
  /\ sweeping = TRUE
  /\ rlResult = NoResult
  /\ admitLog = EmptyMap
  /\ InitClientVars
  /\ InitPureVars
  /\ connectionStatus.isOnline

\* the same checkRateLimit call on both limiters; admitted counts what the
\* first one has admitted
CheckTwice ==
  \E ip \in PostIPs :
    LET key == getKey(ip, "chat")
        d   == CheckOn(twin.store, key, now, twin.config)
    IN /\ checkRateLimit(ip, "chat", config)
       /\ twin' = [twin EXCEPT
                     !.store = MapSet(@, key, d.entry),
                     !.ret = d.ret,
                     !.admitted = IF rlResult'.ret.allowed THEN @ + 1 ELSE @]
       /\ UNCHANGED postResponse

HourTick == RLTickBy(MaxHourTicks, {5000, 60000})

NextHour == CheckTwice \/ cleanup \/ destroy \/ HourTick

SpecHour == InitHour /\ [][NextHour]_vars

\* SpecSimple: the simple client, one call after another.  The clock runs,
\* the timers fire when due, and the transport ends what it has begun: a
\* fetch is answered or fails, a body is handed over or fails
SpecSimple ==
  /\ Init
  /\ [][NextSimple]_vars
  /\ WF_vars(SimpleTick)
  /\ WF_vars(SimpleWake)
  /\ WF_vars(SimpleAbort)
  /\ WF_vars(SimpleTransport)

\* the interval timer of the constructor keeps firing until destroy() clears it
SpecRLFair == InitRL /\ [][NextRL]_vars /\ WF_vars(cleanup)

Spec == Init /\ [][Next]_vars

SpecConcurrent == Init /\ [][NextConcurrent]_vars

SpecStreak == Init /\ [][NextStreak]_vars

\* SpecPassengers: one call, its retries and its passengers, with the history
\* of which passengers joined during a backoff sleep
BoundsPassengers ==
  [pipes |-> {1}, waiters |-> MaxPassengers, ticks |-> MaxPassengerTicks,
   steps |-> {30000}, reqs |-> Requests,
   statuses |-> {200, 400, 503}, hdrs |-> {Null}, randoms |-> {0},
   streak |-> FALSE, signal |-> FALSE, joins |-> TRUE]

NextPassengers == Pipeline(BoundsPassengers)

SpecPassengers == Init /\ [][NextPassengers]_vars

\* SpecTimers: calls whose errors are not retried, a clock that keeps running
\* and a timeout timer that fires when it is due; nothing obliges the upstream
\* to send its headers or to finish a body
BoundsTimers ==
  [pipes |-> {1}, waiters |-> MaxWaiters, ticks |-> MaxTimerTicks,
   steps |-> {30000}, reqs |-> Requests,
   statuses |-> {200, 400}, hdrs |-> {Null}, randoms |-> {0},
   streak |-> FALSE, signal |-> FALSE, joins |-> FALSE]

TimerFires ==
  Abort(BoundsTimers) /\ UNCHANGED <<now, ticks, rlVars, pureVars, lastSignal, simple>>

NextTimers ==
  \/ SendChatMessage(BoundsTimers)
       /\ UNCHANGED <<now, ticks, rlVars, pureVars, lastSignal, simple>>
  \/ FetchResponse(BoundsTimers)
       /\ UNCHANGED <<now, ticks, rlVars, pureVars, lastSignal, simple>>
  \/ FetchFails(BoundsTimers)
       /\ UNCHANGED <<now, ticks, rlVars, pureVars, lastSignal, simple>>
  \/ TimerFires
  \/ ErrorBody(BoundsTimers)
       /\ UNCHANGED <<now, ticks, rlVars, pureVars, lastSignal, simple>>
  \/ OkBody(BoundsTimers)
       /\ UNCHANGED <<now, ticks, rlVars, pureVars, lastSignal, simple>>
  \/ Tick(BoundsTimers)

SpecTimers ==
  /\ Init
  /\ [][NextTimers]_vars
  /\ WF_vars(Tick(BoundsTimers))
  /\ WF_vars(TimerFires)

\* SpecSignals: calls, the window events and checkHealth, with the history of
\* the last event
BoundsSignals ==
  [pipes |-> {1}, waiters |-> MaxWaiters, ticks |-> MaxSignalTicks,
   steps |-> {30000}, reqs |-> Requests,
   statuses |-> {200, 503}, hdrs |-> {Null}, randoms |-> {0},
   streak |-> FALSE, signal |-> TRUE, joins |-> FALSE]

NextSignals ==
  \/ Pipeline(BoundsSignals)
  \/ Signals(BoundsSignals)
  \/ HealthStart /\ UNCHANGED <<now, ticks, rlVars, pureVars, lastSignal, simple>>
  \/ HealthDone /\ UNCHANGED <<now, ticks, rlVars, pureVars, lastSignal, simple>>

SpecSignals == Init /\ [][NextSignals]_vars

SpecPure == InitPure /\ [][NextPure]_vars

\* SpecBackoff: calls overlapping, with the window events, so that the
\* breaker can open or the client go offline while a call sleeps
BoundsBackoff ==
  [pipes |-> Pipes, waiters |-> 0, ticks |-> MaxBackoffTicks,
   steps |-> {30000}, reqs |-> Requests,
   statuses |-> {200, 503}, hdrs |-> {Null}, randoms |-> {0},
   streak |-> FALSE, signal |-> FALSE, joins |-> FALSE]

NextBackoff == Pipeline(BoundsBackoff) \/ Signals(BoundsBackoff)

SpecBackoff == Init /\ [][NextBackoff]_vars

-----------------------------------------------------------------------------
(* Claims about the rate limiter, checked under SpecRL *)

\* How many logged admissions of key k fall in [from, from + len)
AdmittedIn(k, from, len) ==
  Cardinality({i \in 1..Len(admitLog[k]) :
                 admitLog[k][i] >= from /\ admitLog[k][i] < from + len})

Checked == rlResult.key # ""

\* C6: under one fixed policy every entry of the store has
\* burstCount <= burstLimit and count <= perMinute, and (while the limiter is
\* not destroyed) no more than burstLimit checks were admitted since the
\* entry's burst window was last reset, no more than perMinute since its
\* minute window was last reset.
C6_FixedWindowBound ==
  \A k \in DOMAIN store :
    /\ store[k].burstCount <= config.burstLimit
    /\ store[k].count <= config.perMinute
    /\ (sweeping /\ Has(admitLog, k)) =>
         /\ AdmittedIn(k, store[k].burstResetTime - config.burstWindow,
                       config.burstWindow) <= config.burstLimit
         /\ AdmittedIn(k, store[k].resetTime - MinuteWindow, MinuteWindow)
              <= config.perMinute

\* C6 witness: an entry with both counters at their limits
C6_Witness ==
  \E k \in DOMAIN store :
    /\ sweeping
    /\ store[k].burstCount = config.burstLimit
    /\ store[k].count = config.perMinute
    /\ AdmittedIn(k, store[k].resetTime - MinuteWindow, MinuteWindow)
         = config.perMinute

\* C7 as stated: in any interval of length burstWindow at most burstLimit
\* checks of a key are admitted, and in any rolling 60 s interval at most
\* perMinute (intervals starting at any admission, not at window boundaries).
C7_RollingBound ==
  sweeping =>
    \A k \in DOMAIN admitLog : \A i \in 1..Len(admitLog[k]) :
      /\ AdmittedIn(k, admitLog[k][i], config.burstWindow) <= config.burstLimit
      /\ AdmittedIn(k, admitLog[k][i], MinuteWindow) <= config.perMinute

\* C7 amended: the windows are fixed, so an interval of length burstWindow
\* (60 s) can hold the admissions of two adjacent burst (minute) windows: at
\* most 2 * burstLimit (2 * perMinute) checks of a key are admitted in it, as
\* long as the limiter is not destroyed.
C7_TwoWindowsBound ==
  sweeping =>
    \A k \in DOMAIN admitLog : \A i \in 1..Len(admitLog[k]) :
      /\ AdmittedIn(k, admitLog[k][i], config.burstWindow) <= 2 * config.burstLimit
      /\ AdmittedIn(k, admitLog[k][i], MinuteWindow) <= 2 * config.perMinute

\* C7 witness: more than burstLimit admissions inside one interval of length
\* burstWindow, on both sides of a burst reset
C7_Witness ==
  /\ sweeping
  /\ \E k \in DOMAIN admitLog : \E i \in 1..Len(admitLog[k]) :
       /\ AdmittedIn(k, admitLog[k][i], config.burstWindow) > config.burstLimit
       /\ admitLog[k][i] < store[k].burstResetTime - config.burstWindow

\* C8: the burst gate is looked at first.  Whenever burstCount >= burstLimit
\* (after the window resets) the check is rejected with the burst message,
\* resetTime = burstResetTime and remaining = 0, whatever count is; the
\* sustained rejection is returned only with burstCount < burstLimit and
\* count >= perMinute, and carries the minute window's reset time.
C8_BurstGateFirst ==
  Checked =>
    LET b == rlResult.before
        r == rlResult.ret
    IN /\ b.burstCount >= config.burstLimit =>
            r = [allowed |-> FALSE, error |-> BurstError,
                 resetTime |-> b.burstResetTime, remaining |-> 0]
       /\ r.error = MinuteError =>
            /\ b.burstCount < config.burstLimit
            /\ b.count >= config.perMinute
            /\ r = [allowed |-> FALSE, error |-> MinuteError,
                    resetTime |-> b.resetTime, remaining |-> 0]
       /\ r.error = BurstError => b.burstCount >= config.burstLimit
       /\ ~r.allowed => rlResult.after = b

\* C8 witness: a burst rejection while the minute quota is used up as well
C8_Witness ==
  /\ Checked
  /\ rlResult.ret.error = BurstError
  /\ rlResult.before.count >= config.perMinute
  /\ rlResult.before.burstResetTime # rlResult.before.resetTime

\* C9: an admitted check increments count and burstCount by exactly one and
\* returns allowed = TRUE, remaining = perMinute - count (the incremented
\* count, so remaining >= 0) and resetTime = the entry's minute reset time.
C9_AdmitEffect ==
  (Checked /\ rlResult.ret.allowed) =>
    LET b == rlResult.before
        a == rlResult.after
        r == rlResult.ret
    IN /\ a.count = b.count + 1
       /\ a.burstCount = b.burstCount + 1
       /\ a.resetTime = b.resetTime /\ a.burstResetTime = b.burstResetTime
       /\ r.remaining = config.perMinute - a.count
       /\ r.remaining >= 0
       /\ r.resetTime = a.resetTime
       /\ r.error = NoError

\* C9 witness: the admission that uses up the minute quota
C9_Witness ==
  /\ Checked
  /\ rlResult.ret.allowed
  /\ rlResult.ret.remaining = 0
  /\ rlResult.after.count = config.perMinute

\* the entry a check of key k finds, as it stands before the check
Found(k) == IF Has(store, k) THEN store[k] ELSE NewEntry(now, config)

\* would a check at time t be admitted, given that it finds entry e
AdmittedAt(e, t) == Decide(ResetWindows(e, t, config), config).ret.allowed

\* the delays after which the next check of the caller is looked at
Later == {0, 1, 5000, 10000, 55000, 60000, 65000}

\* C28: a rejected check leaves count and burstCount as they were, except
\* that a window that has expired is reset (counter 0, reset time moved), and
\* it does not change whether a check at any later time is admitted.
C28_RejectionFree ==
  [][(CheckRateLimit /\ ~rlResult'.ret.allowed) =>
       LET k  == rlResult'.key
           e0 == Found(k)
           e1 == store'[k]
       IN /\ e1.count = (IF now >= e0.resetTime THEN 0 ELSE e0.count)
          /\ e1.resetTime = (IF now >= e0.resetTime THEN now + MinuteWindow
                                                    ELSE e0.resetTime)
          /\ e1.burstCount = (IF now >= e0.burstResetTime THEN 0
                                                          ELSE e0.burstCount)
          /\ e1.burstResetTime =
               (IF now >= e0.burstResetTime THEN now + config.burstWindow
                                            ELSE e0.burstResetTime)
          /\ \A d \in Later : AdmittedAt(e1, now + d) = AdmittedAt(e0, now + d)]_vars

\* C28 witness: a sustained rejection by a check that reset the burst window
C28_Witness ==
  /\ Checked
  /\ rlResult.ret.error = MinuteError
  /\ rlResult.after.burstCount = 0
  /\ rlResult.after.burstResetTime = rlResult.at + config.burstWindow
  /\ rlResult.at > 0

C21_SweepUnobservable ==
  \A ip \in IPs, ep \in Endpoints :
    LET k == getKey(ip, ep)
    IN /\ CheckOn(store, k, now, config).ret = CheckOn(shadow, k, now, config).ret
       /\ getRemainingRequests(store, ip, ep, now)
            = getRemainingRequests(shadow, ip, ep, now)
       /\ (Has(shadow, k) /\ Expired(shadow[k], now)) =>
            /\ CheckOn(shadow, k, now, config) = CheckOn(EmptyMap, k, now, config)
            /\ getRemainingRequests(shadow, ip, ep, now)
                 = getRemainingRequests(EmptyMap, ip, ep, now)

\* C21 witness: a sweep has removed the expired entry of one key, which the
\* next check of that key would have found, while another key holds an entry
\* with admissions
C21_Witness ==
  /\ sweeping
  /\ \E k \in DOMAIN shadow : ~Has(store, k)
  /\ \E k \in DOMAIN store : store[k] = shadow[k] /\ store[k].count > 1

\* the keys of the store
Keys == {getKey(ip, ep) : ip \in IPs, ep \in Endpoints}

\* both reset times of the entry of key k are in the past
BothPast(k) ==
  /\ Has(store, k)
  /\ store[k].resetTime < now
  /\ store[k].burstResetTime < now

\* C30: a sweep removes only entries whose two reset times are both in the
\* past; and, the timer firing again and again, an entry that has both reset
\* times in the past while the timer is armed is eventually gone from the
\* store (swept, or cleared by destroy) unless a check renews it first.
C30_SweepRemovesExpired ==
  /\ [][cleanup => \A k \in DOMAIN store \ DOMAIN store' : BothPast(k)]_vars
  /\ \A k \in Keys : (sweeping /\ BothPast(k)) ~> ~BothPast(k)

\* C30 witness: a sweep has removed the expired entry of one key and kept the
\* entry of another, whose windows have not both expired
C30_Witness ==
  /\ sweeping
  /\ \E k \in DOMAIN shadow : ~Has(store, k) /\ Expired(shadow[k], now)
  /\ \E k \in DOMAIN store : ~BothPast(k) /\ store[k].burstResetTime < now

\* the part of the store a check of key k is allowed to read
Only(k) == [x \in {k} \cap DOMAIN store |-> store[x]]

\* C26: distinct (identity, route) pairs have distinct keys, and a check for
\* one pair returns what it returns on that pair's entry alone and leaves
\* the entry of every other pair, the same identity on another route
\* included, as it was (present or absent).
C26_KeysIndependent ==
  [][\A pr \in Pairs :
       checkRateLimit(pr[1], pr[2], PolicyOf(pr[2])) =>
         LET k == getKey(pr[1], pr[2])
         IN /\ \A q \in Pairs \ {pr} :
                 LET kq == getKey(q[1], q[2])
                 IN /\ kq # k
                    /\ Has(store', kq) = Has(store, kq)
                    /\ Has(store, kq) => store'[kq] = store[kq]
            /\ rlResult'.ret = CheckOn(Only(k), k, now, PolicyOf(pr[2])).ret
            /\ store'[k] = CheckOn(Only(k), k, now, PolicyOf(pr[2])).entry]_vars

\* C26 witness: the caller is rejected on one route and has just been
\* admitted on the other
C26_Witness ==
  /\ Has(store, getKey("10.0.0.1", "chat"))
  /\ store[getKey("10.0.0.1", "chat")].count = PolicyOf("chat").perMinute
  /\ rlResult.key = getKey("10.0.0.1", "health")
  /\ rlResult.ret.allowed
  /\ rlResult.at < store[getKey("10.0.0.1", "chat")].resetTime
  /\ Has(store, getKey("10.0.0.1:chat", "chat"))

\* C27: when the limiter rejects the request of a POST, the response has
\* status 429, its retryAfter is the number of seconds to the returned
\* resetTime rounded up, at least 1, the Retry-After header is that number
\* in decimal, and no call of the model was made.
C27_RejectedPost ==
  (postResponse.checked /\ ~rlResult.ret.allowed) =>
    LET wait == rlResult.ret.resetTime - rlResult.at
    IN /\ postResponse.status = 429
       /\ postResponse.retryAfter * 1000 >= wait
       /\ (postResponse.retryAfter - 1) * 1000 < wait
       /\ postResponse.retryAfter >= 1
       /\ postResponse.RetryAfter = toString(postResponse.retryAfter)
       /\ postResponse.upstream = 0

\* C27 witness: a sustained rejection answered with a wait that is not a whole
\* number of seconds
C27_Witness ==
  /\ postResponse.checked
  /\ rlResult.ret.error = MinuteError
  /\ postResponse.status = 429
  /\ (rlResult.ret.resetTime - rlResult.at) % 1000 # 0
  /\ postResponse.retryAfter >= 10

-----------------------------------------------------------------------------
(* ApiService: the claims                                                    *)

\* C1: single flight.  A call issued while a call with the identical request
\* is still pending starts no fetch of its own (no free pipeline starts one
\* for that request), and the passengers of a pipeline carry the request of
\* its owner, so that they are all handed the owner's one outcome.
C1_SingleFlight ==
  [][/\ \A p, q \in Pipes :
          (Live(q) /\ ~Live(p) /\ pipes'[p].st # "free")
            => pipes'[p].req # pipes[q].req
     /\ \A p \in Pipes : \A i \in 1..Len(pipes'[p].waiters) :
          pipes'[p].waiters[i] = pipes'[p].req]_vars

\* C2: in every reachable state at most one pipeline per dedup key is in
\* flight.
C2_OnePipelinePerKey ==
  \A p, q \in Pipes :
    (Live(p) /\ Live(q) /\ KeyOf[pipes[p].req] = KeyOf[pipes[q].req]) => p = q

\* C3: when the fifth call in a row that made an attempt has ended in
\* failure, the breaker is open.
C3_TripsAfterThreshold ==
  (lastResult.attempts > 0 /\ ~lastResult.ok
     /\ failStreak >= circuitBreakerThreshold)
    => isCircuitBreakerOpen(circuitBreakerFailures, circuitBreakerLastFailure,
                            now).open

\* C4: a sendChatMessage call made while the breaker is open is rejected at
\* once with the breaker's 'server' error, whatever is in flight.
C4_CircuitCheckFirst ==
  [][(/\ isCircuitBreakerOpen(circuitBreakerFailures,
                              circuitBreakerLastFailure, now).open
      /\ SendChatMessage(BoundsConcurrent))
       => (lastResult'.err = BreakerError /\ lastResult'.attempts = 0)]_vars

\* C5: when a call returns the body of a 2xx response, the breaker counts no
\* failure and holds no failure time.
C5_SuccessResets ==
  lastResult.ok => (circuitBreakerFailures = 0 /\ circuitBreakerLastFailure = Null)

\* the classes the client calls transient
Transient == {"network", "timeout", "server", "rate_limit"}

\* C10: an error of a transient class that a physical attempt ended with is
\* surfaced only once the retry budget is spent, i.e. after maxRetries + 1
\* attempts.
C10_TransientRetried ==
  (/\ ~lastResult.ok
   /\ lastResult.attempts > 0
   /\ lastResult.waits = lastResult.attempts - 1
   /\ lastResult.err.type \in Transient)
    => lastResult.attempts = maxRetries + 1

-----------------------------------------------------------------------------
(* The pure functions: claims checked under SpecPure                         *)

\* C14: the delay before retry n never exceeds 30000 ms, jitter included;
\* without jitter it is retryDelay * 2^n capped at 30000 ms, which is more
\* than the delay before retry n - 1 as long as it is below the cap; the
\* jitter adds at most a tenth of the uncapped delay.
C14_BackoffDelay ==
  ret.op = "calculateRetryDelay" =>
    LET n    == call.retryCount
        base == retryDelay * Pow2(n)
    IN /\ ret.delay <= 30000
       /\ ret.delay >= Min(base, 30000)
       /\ ret.delay <= base + base \div 10
       /\ call.random = 0 => ret.delay = Min(base, 30000)
       /\ (call.random = 0 /\ n > 0 /\ ret.delay < 30000)
            => retryDelay * Pow2(n - 1) < ret.delay

\* C14 witness: a delay with jitter that the cap has cut down to 30000 ms
C14_Witness ==
  /\ ret.op = "calculateRetryDelay"
  /\ call.random > 0
  /\ retryDelay * Pow2(call.retryCount) > 30000
  /\ ret.delay = 30000

\* the classification of the error statuses, as C20 states it
ErrorClasses ==
  /\ call.status >= 500
       => (~ret.ok /\ ret.err.type = "server" /\ ret.err.retryable)
  /\ call.status = 429
       => /\ ~ret.ok /\ ret.err.type = "rate_limit" /\ ret.err.retryable
          /\ ret.err.retryAfter =
               IF call.hdr = Null THEN 60000 ELSE call.hdr * 1000
  /\ call.status \in {401, 403}
       => (~ret.ok /\ ret.err.type = "auth" /\ ~ret.err.retryable)
  /\ (call.status >= 400 /\ call.status <= 499
        /\ call.status \notin {401, 403, 429})
       => (~ret.ok /\ ret.err.type = "client" /\ ~ret.err.retryable)

\* C20 (as stated): the error statuses are classified as above and every
\* status below 400 is a success.
C20_Classification ==
  ret.op = "classify" =>
    (ErrorClasses /\ (call.status < 400 => ret.ok))

\* C20 (amended): the error statuses are classified as above, the statuses
\* 200..299 are a success, and the statuses 300..399 are an 'unknown' error
\* that is not retried.
C20_ClassificationOk ==
  ret.op = "classify" =>
    /\ ErrorClasses
    /\ (call.status >= 200 /\ call.status <= 299)
         => (ret.ok /\ ret.err = NoApiError)
    /\ (call.status >= 300 /\ call.status < 400)
         => /\ ~ret.ok /\ ret.err.type = "unknown" /\ ~ret.err.retryable
            /\ ret.err.statusCode = call.status

\* C20 witness: a 403 has been classified
C20_Witness ==
  /\ ret.op = "classify"
  /\ call.status = 403
  /\ ret.err.type = "auth"

-----------------------------------------------------------------------------
(* ApiService: claims about retries                                          *)

\* the classes that are not retried
NonTransient == {"client", "auth", "unknown"}

\* C11: an attempt classified client, auth or unknown ends the call there:
\* the pipeline goes from the classified response straight to its outcome,
\* which is that error, after no further wait or attempt; no pipeline ever
\* sleeps after such a response, and every outcome of these classes comes
\* from an attempt, not from a wait.
C11_NonTransientEndsCall ==
  [][/\ \A p \in Pipes :
          LET err == handleHttpError(pipes[p].status, pipes[p].hdr)
          IN (/\ pipes[p].st = "errbody"
              /\ err.type \in NonTransient
              /\ pipes'[p].st # "errbody")
               => /\ pipes'[p] = FreePipe
                  /\ lastResult'.err = err
                  /\ lastResult'.attempts = pipes[p].retryCount + 1
                  /\ lastResult'.waits = pipes[p].retryCount
     /\ \A p \in Pipes :
          pipes'[p].st = "sleep"
            => handleHttpError(pipes'[p].status, pipes'[p].hdr).type
                 \notin NonTransient
     /\ lastResult'.err.type \in NonTransient
          => lastResult'.waits = lastResult'.attempts - 1]_vars

\* C11 witness: a call has ended with an auth error on a retry
C11_Witness ==
  /\ lastResult.err.type = "auth"
  /\ lastResult.attempts > 1
  /\ lastResult.waits = lastResult.attempts - 1

\* at most maxRetries retries: no pipeline is beyond its last retry and no
\* outcome comes after more than maxRetries + 1 attempts
WithinBudget ==
  /\ \A p \in Pipes : pipes[p].retryCount <= 3
  /\ lastResult.attempts <= 3 + 1

C13_HonorsRetryAfter ==
  [][\A p \in Pipes :
       LET err == handleHttpError(pipes[p].status, pipes[p].hdr)
       IN (/\ pipes[p].st = "sleep"
           /\ pipes'[p].st = "fetch"
           /\ err.type = "rate_limit")
            => now' >= pipes[p].start + err.retryAfter]_vars

-----------------------------------------------------------------------------
(* ApiService: claims about the breaker, the queue and the signals           *)

\* C15: a call of getMetrics leaves the counters of the breaker, the queue
\* and the connection status as they were.
C15_MetricsReadOnly ==
  [][getMetrics
       => UNCHANGED <<circuitBreakerFailures, circuitBreakerLastFailure,
                      requestQueue, connectionStatus>>]_vars

\* C16: whatever outcome a call's pipeline delivers (a response, a surfaced
\* error, a short-circuit of the breaker or of the offline check), the queue
\* has no entry for the key of that call once the outcome is delivered, so
\* the next identical call is not handed the old promise.
C16_DedupCleanup ==
  lastResult # NoCallResult => ~InFlight(KeyOf[lastResult.req])

\* a surfaced error shared by the owner and a passenger
C16_Witness ==
  /\ lastResult # NoCallResult
  /\ ~lastResult.ok
  /\ lastResult.attempts > 0
  /\ lastResult.callers = 2
  /\ ~InFlight(KeyOf[lastResult.req])

\* C17: when the call that probes a tripped breaker after its window fails
\* at a physical attempt, the breaker is open again at once and its window
\* runs from the time of that failure.
C17_ProbeFailureReopens ==
  (lastResult.probe /\ ~lastResult.ok /\ lastResult.attempts > lastResult.waits)
    => /\ isCircuitBreakerOpen(circuitBreakerFailures,
                               circuitBreakerLastFailure, now).open
       /\ circuitBreakerLastFailure = now

\* C18: a call that ends with the failure of a physical attempt, of
\* whatever class, leaves the counter of the breaker greater than it was when
\* that attempt started (the counter is never negative, so it is at least 1)
\* and the time of the last failure set to the time of that failure.
C18_FailureRecorded ==
  (/\ lastResult # NoCallResult
   /\ ~lastResult.ok
   /\ lastResult.attempts > lastResult.waits)
    => /\ circuitBreakerFailures >= 1
       /\ circuitBreakerLastFailure = now

\* this step is a sendChatMessage call that is not handed the promise of an
\* identical call in flight, made with the breaker closed
OwnCall ==
  /\ SendChatMessage(BoundsSignals)
  /\ \A p \in Pipes : pipes'[p].waiters = pipes[p].waiters
  /\ ~isCircuitBreakerOpen(circuitBreakerFailures, circuitBreakerLastFailure,
                           now).open

\* this step rejects a call with the offline error and without an attempt
FailsOffline ==
  /\ lastResult'.err = OfflineError
  /\ lastResult'.attempts = 0
  /\ pipes' = pipes

\* this step starts the first attempt of a call
Attempts ==
  \E p \in Pipes :
    /\ ~Live(p)
    /\ pipes'[p].st = "fetch"
    /\ pipes'[p].retryCount = 0

\* what the two signals do to the status
SignalEffect ==
  /\ Online(BoundsSignals) => (connectionStatus'.isOnline /\ connectionStatus'.lastChecked = now)
  /\ Offline(BoundsSignals) => (~connectionStatus'.isOnline /\ connectionStatus'.lastChecked = now)

\* C19 (as stated): once 'offline' has been signalled and no 'online' has
\* followed, every call made with the breaker closed fails with the offline
\* 'network' error without an attempt; the signals set isOnline and
\* lastChecked, and a call after 'online' attempts normally.
C19_OfflineUntilOnline ==
  [][/\ (lastSignal = "offline"
          /\ SendChatMessage(BoundsSignals)
          /\ ~isCircuitBreakerOpen(circuitBreakerFailures,
                                   circuitBreakerLastFailure, now).open)
        => FailsOffline
     /\ (connectionStatus.isOnline /\ OwnCall) => Attempts
     /\ SignalEffect]_vars

\* C19 (amended): while isOnline is false, every call made with the breaker
\* closed that is not handed the promise of an identical call in flight fails
\* with the offline 'network' error (retryable) without an attempt; while it
\* is true such a call starts an attempt; 'online' sets isOnline to true,
\* 'offline' to false, and both set lastChecked.
C19_OfflineShortCircuit ==
  [][/\ (~connectionStatus.isOnline /\ OwnCall)
        => (FailsOffline /\ lastResult'.err.type = "network"
                         /\ lastResult'.err.retryable)
     /\ (connectionStatus.isOnline /\ OwnCall) => Attempts
     /\ SignalEffect]_vars

\* a call was rejected as offline after an 'offline' signal
C19_Witness ==
  /\ lastSignal = "offline"
  /\ ~connectionStatus.isOnline
  /\ lastResult.err = OfflineError
  /\ lastResult.attempts = 0

\* C24: when an attempt gets its response, the connection status becomes
\* online, checked now, with the time the attempt took as response time.
C24_ResponseUpdatesStatus ==
  [][\A p \in Pipes :
       (pipes[p].st = "fetch" /\ pipes'[p].st \in {"okbody", "errbody"})
         => connectionStatus' = [isOnline |-> TRUE, lastChecked |-> now,
                                 responseTime |-> now - pipes[p].start]]_vars

\* C22: a call that succeeds at its attempt k > 1, after k - 1 attempts
\* answered with a retryable error, has waited k - 1 times, is within the
\* budget of attempts, delivers its one result, and returns with the counter
\* of the breaker at 0.
C22_RetryThenSuccess ==
  (lastResult.ok /\ lastResult.attempts >= 2) =>
    /\ lastResult.attempts <= maxRetries + 1
    /\ lastResult.waits = lastResult.attempts - 1
    /\ lastResult.callers >= 1
    /\ circuitBreakerFailures = 0

\* C23: the passengers of a call stay with it through its attempts and its
\* backoff sleeps, wherever they joined; joining starts no attempt and
\* delivers nothing; they leave only when the owner's pipeline settles, and
\* that step delivers one outcome to the owner and all of them.
C23_PassengersWait ==
  [][\A p \in Pipes :
       LET w == pipes[p].waiters
           v == pipes'[p].waiters
       IN /\ (Live(p) /\ pipes'[p].st # "free")
               => (Len(v) >= Len(w) /\ SubSeq(v, 1, Len(w)) = w)
          /\ (Live(p) /\ Len(v) > Len(w))
               => /\ pipes'[p] = [pipes[p] EXCEPT !.waiters = v,
                                                   !.asleep = pipes'[p].asleep]
                  /\ lastResult' = NoCallResult
          /\ (Live(p) /\ pipes'[p].st = "free")
               => /\ lastResult'.req = pipes[p].req
                  /\ lastResult'.callers = 1 + Len(w)
                  /\ lastResult'.attempts = pipes[p].retryCount + 1
                  /\ pipes[p].st \in {"fetch", "okbody", "errbody", "sleep"}
                  /\ pipes[p].st = "errbody"
                       => ~ShouldRetry(lastResult'.err, pipes[p].retryCount)]_vars

\* C23 witness: a passenger that joined during a backoff sleep is handed the
\* success of a later attempt together with the owner
C23_Witness ==
  /\ lastResult.ok
  /\ lastResult.asleep
  /\ lastResult.callers >= 2
  /\ lastResult.attempts >= 3

\* C25: no entry of the queue is held forever.  With the clock running and
\* the timeout timer firing when due, an entry that is in the queue while the
\* clock can still advance is eventually removed, whatever the upstream does
\* or fails to do.
C25_NoStaleEntry ==
  \A r \in Requests :
    (InFlight(KeyOf[r]) /\ ticks < MaxTimerTicks) ~> ~InFlight(KeyOf[r])

-----------------------------------------------------------------------------
(* ApiService: the breaker's window and its counters                         *)

\* this step is a sendChatMessage call that runs makeRequest itself (it is
\* not handed the promise of an identical call in flight)
Enters(B) ==
  /\ SendChatMessage(B)
  /\ \A p \in Pipes : pipes'[p].waiters = pipes[p].waiters

\* this step rejects a call with the breaker's error and without an attempt
FailsBreaker ==
  /\ lastResult'.err = BreakerError
  /\ lastResult'.attempts = 0
  /\ pipes' = pipes

\* C31: a call that reaches the breaker's check is rejected by it exactly
\* when the counter is at the threshold or above and less than
\* circuitBreakerResetTime ms have passed since the last recorded failure; at
\* exactly circuitBreakerResetTime ms or more it is not rejected by it.
C31_OpenPredicate ==
  [][Enters(Bounds)
       => (FailsBreaker
             <=> /\ circuitBreakerFailures >= circuitBreakerThreshold
                 /\ circuitBreakerLastFailure # Null
                 /\ now - circuitBreakerLastFailure < circuitBreakerResetTime)]_vars

\* C32: the breaker holds a failure time exactly when its counter is not 0,
\* and the counter is never negative.
C32_CountersAgree ==
  /\ circuitBreakerFailures >= 0
  /\ circuitBreakerLastFailure = Null <=> circuitBreakerFailures = 0

\* C32 witness: the call that probed a tripped breaker found the counters
\* reset by the breaker's check and has recorded a failure of its own
C32_Witness ==
  /\ lastResult.probe
  /\ ~lastResult.ok
  /\ circuitBreakerFailures = 1
  /\ circuitBreakerLastFailure = now

\* this step ends a call with a short-circuit: the breaker or the offline
\* check rejects it, on entry or after a backoff wait, without an attempt
ShortCircuits ==
  /\ lastResult' # NoCallResult
  /\ ~lastResult'.ok
  /\ lastResult'.attempts = lastResult'.waits
  /\ lastResult'.err \in {BreakerError, OfflineError}

\* C33: a step that rejects a call by short-circuit leaves the counter and
\* the failure time of the breaker as they were, and a call made more than
\* circuitBreakerResetTime ms after the last recorded failure is not rejected
\* by the breaker.
C33_ShortCircuitKeepsCounters ==
  [][/\ ShortCircuits => UNCHANGED breakerVars
     /\ (/\ Enters(Bounds)
         /\ circuitBreakerLastFailure # Null
         /\ now - circuitBreakerLastFailure > circuitBreakerResetTime)
          => ~FailsBreaker]_vars

\* C34: when the backoff sleep of a call is over, the breaker and the offline
\* check decide again.  With the breaker open the call ends with the
\* breaker's error ('server', not retryable), otherwise with the client
\* offline it ends with the offline error ('network'); in both cases it makes
\* no further attempt and its outcome is not the error of its last attempt.
\* Otherwise the next attempt starts.
C34_RecheckBeforeRetry ==
  [][\A p \in Pipes :
       (pipes[p].st = "sleep" /\ pipes'[p].st # "sleep")
         => LET open == isCircuitBreakerOpen(circuitBreakerFailures,
                                             circuitBreakerLastFailure, now).open
                last == handleHttpError(pipes[p].status, pipes[p].hdr)
            IN IF open \/ ~connectionStatus.isOnline
                 THEN /\ pipes'[p].st = "free"
                      /\ lastResult'.req = pipes[p].req
                      /\ lastResult'.attempts = pipes[p].retryCount + 1
                      /\ lastResult'.err # last
                      /\ lastResult'.err.type = IF open THEN "server" ELSE "network"
                      /\ open => ~lastResult'.err.retryable
                      /\ lastResult'.err = IF open THEN BreakerError ELSE OfflineError
                 ELSE /\ pipes'[p].st = "fetch"
                      /\ pipes'[p].retryCount = pipes[p].retryCount + 1]_vars

\* C34 witness: the breaker was opened by the failures of other calls while
\* this call slept after its first attempt, and the call has ended with the
\* breaker's error
C34_Witness ==
  /\ lastResult.err = BreakerError
  /\ lastResult.waits >= 1
  /\ lastResult.attempts = lastResult.waits
  /\ circuitBreakerFailures >= circuitBreakerThreshold

-----------------------------------------------------------------------------
(* ApiService: who sets isOnline                                             *)

\* isOnline turns true only in a step of the 'online' handler or of
\* checkHealth
OnlineOnlyRestored ==
  (~connectionStatus.isOnline /\ connectionStatus'.isOnline)
    => \/ Online(BoundsSignals)
       \/ HealthDone

\* this step answers a call at once, with an error and without an attempt
RejectsAtOnce ==
  /\ lastResult' # NoCallResult
  /\ ~lastResult'.ok
  /\ lastResult'.attempts = 0
  /\ pipes' = pipes

\* C36 (as stated): isOnline turns true only through an 'online' signal or a
\* checkHealth with an ok response, and while it is false every
\* sendChatMessage call is rejected without an attempt.
C36_OfflineUntilRestored ==
  [][/\ OnlineOnlyRestored
     /\ (~connectionStatus.isOnline /\ SendChatMessage(BoundsSignals))
          => RejectsAtOnce]_vars

\* C36 (amended): isOnline turns true only through an 'online' signal or a
\* checkHealth with an ok response; while it is false, every sendChatMessage
\* call that is not handed the promise of an identical call in flight is
\* rejected without an attempt, by the offline check or by the breaker; a
\* call that is handed such a promise starts no attempt and waits for the
\* outcome of the call in flight.
C36_OfflineRejectsOwnCalls ==
  [][/\ OnlineOnlyRestored
     /\ (~connectionStatus.isOnline /\ Enters(BoundsSignals))
          => /\ RejectsAtOnce
             /\ lastResult'.err \in {OfflineError, BreakerError}
     /\ (~connectionStatus.isOnline /\ SendChatMessage(BoundsSignals)
           /\ ~Enters(BoundsSignals))
          => /\ lastResult' = NoCallResult
             /\ \A p \in Pipes :
                  /\ pipes'[p].st = pipes[p].st
                  /\ pipes'[p].start = pipes[p].start
                  /\ Len(pipes'[p].waiters) > Len(pipes[p].waiters)
                       => pipes[p].st # "free"]_vars

\* C36 witness: no window event has occurred, a response has been received
\* at some time, checkHealth has left isOnline false, and a call has been
\* rejected as offline
C36_Witness ==
  /\ lastSignal = "none"
  /\ ~connectionStatus.isOnline
  /\ connectionStatus.responseTime # Null
  /\ lastResult.err = OfflineError
  /\ lastResult.attempts = 0
  /\ lastResult.callers = 1

-----------------------------------------------------------------------------
(* RateLimiter: perHour, checked under SpecHour                              *)

\* C37: two limiters whose policies differ in perHour only, fed the same
\* checks at the same times, return the same result at every check and hold
\* the same entries.
C37_PerHourIgnored ==
  /\ twin.config.perHour # config.perHour
  /\ twin.config = [config EXCEPT !.perHour = twin.config.perHour]
  /\ twin.ret = rlResult.ret
  /\ twin.store = store

\* C37 witness: within a minute and a few seconds, well within an hour, a
\* key has been admitted more often than the perHour of its policy, which is
\* above perMinute, and the limiter with another perHour has answered alike
C37_Witness ==
  /\ config.perHour > config.perMinute
  /\ twin.admitted > config.perHour
  /\ now < 60 * MinuteWindow
  /\ rlResult.ret.allowed
  /\ twin.ret = rlResult.ret

-----------------------------------------------------------------------------
(* The chat route: where the check sits, checked under SpecPost              *)

\* C38: a request whose body is not JSON is answered 400 and the limiter is
\* not asked: its store and its last result stay as they were.  A request
\* without a message goes through the check first: when it is admitted it is
\* answered 400 and count and burstCount of its key have been incremented,
\* and when it is rejected it is answered 429.
C38_CheckBeforeValidation ==
  [][\A ip \in PostIPs, up \in Upstream :
       /\ Post(ip, "not JSON", up)
            => /\ postResponse'.status = 400
               /\ ~postResponse'.checked
               /\ UNCHANGED <<store, rlResult, admitLog>>
       /\ Post(ip, "no message", up)
            => LET key == getKey(ip, "chat")
               IN /\ postResponse'.checked
                  /\ rlResult'.key = key
                  /\ rlResult'.at = now
                  /\ postResponse'.status =
                       IF rlResult'.ret.allowed THEN 400 ELSE 429
                  /\ rlResult'.ret.allowed
                       => /\ store'[key].count = rlResult'.before.count + 1
                          /\ store'[key].burstCount =
                               rlResult'.before.burstCount + 1
                          /\ postResponse'.upstream = 0]_vars

\* C38 witness: a request without a message has been admitted and answered
\* 400 with the counters of its key incremented, so that the burst gate is
\* now closed for the key
C38_Witness ==
  /\ postResponse.checked
  /\ postResponse.status = 400
  /\ rlResult.ret.allowed
  /\ Has(store, rlResult.key)
  /\ store[rlResult.key].burstCount = rlResult.before.burstCount + 1
  /\ store[rlResult.key].count = rlResult.before.count + 1
  /\ store[rlResult.key].burstCount = config.burstLimit

-----------------------------------------------------------------------------
(* The simple client: claims checked under SpecSimple                        *)

\* this step ends an attempt of the simple client with a 5xx response or
\* with a transport error thrown by fetch
FailsRetryably ==
  /\ simple.st = "fetch"
  /\ simple'.st # "fetch"
  /\ \/ simple'.status # Null /\ simple'.status >= 500
     \/ simple'.status = Null /\ simple'.lastError \in TransportErrors

\* the clock can still advance often enough for the timers the call may
\* still arm: one per fetch and one per wait
TimeLeft ==
  MaxSimpleTicks - ticks >= 2 * (simpleMaxRetries - simple.attempt) + 1

C40_NoRetryOn4xxOrAbort ==
  [][/\ (simple.st = "errbody" /\ simple'.st # "errbody")
          => /\ simple'.st = "done"
             /\ simple'.result.returned
             /\ ~simple'.result.threw
             /\ simple'.result.response = <<>>
             /\ simple'.result.error # <<>>
             /\ simple'.waited = simple.waited
             /\ simple'.fetches = simple.fetches
     /\ (simple.st = "fetch" /\ simple'.st # "fetch"
           /\ simple'.lastError = AbortError /\ simple'.status = Null)
          => /\ simple'.st = "done"
             /\ simple'.result = ErrorValue(TimedOutMessage)
             /\ simple'.waited = simple.waited
             /\ simple'.fetches = simple.fetches
     /\ simple'.timer <=> simple'.st = "fetch"]_vars

====
